---- MODULE Spec2Model ----
(***************************************************************************)
(* A model of scribe's speaker-attribution and verification core:          *)
(*   diarizer.py    windowing, label mapping, label smoothing              *)
(*   comparator.py  time index, similarity, discrepancy notes              *)
(*   proofer.py     confidence markers                                     *)
(*   separator.py   temporary per-speaker audio files                      *)
(*   cli.py         the pipeline that composes them                        *)
(*                                                                         *)
(* Python dicts are modelled as TLA+ functions whose DOMAIN is the set of  *)
(* keys present, so an absent key and a key holding a value are distinct.  *)
(* Times of the smoother are in milliseconds; the float comparison         *)
(* end - start < 3.0 is modelled on exact values.                          *)
(***************************************************************************)
EXTENDS Integers, Sequences, FiniteSets, TLC

VARIABLES
    \* ---- _smooth_speaker_changes called directly on a segment list
    segments,        \* the list argument, mutated in place
    smooth_in,       \* the list as it was before the first call
    smooth_prev,     \* the list as it was before the latest call
    smooth_calls,    \* number of calls made so far
    smooth_flipped,  \* the list as the first loop of the latest call left it
    \* ---- diarize_audio
    d_pc,            \* position in diarize_audio
    len_signal,      \* waveform.shape[1], samples at 16 kHz
    num_speakers,    \* the num_speakers argument (None: auto)
    segment_times,   \* _extract_embeddings' second result (times in samples)
    n_embeddings,    \* len(embeddings)
    labels,          \* _cluster_embeddings' result
    diar_segments,   \* the diarization segment list
    transcription,   \* the transcription dict, mutated in place
    d_calls,         \* the steps diarize_audio has run from extraction on, in order
    \* ---- cli.main and the temporary files of the verification stage
    cli_pc,          \* position in main
    opts,            \* the command-line options of the job
    stage_log,       \* the pipeline stages invoked so far, in order
    result_speakers, \* result["speakers"] once diarized (Auto before)
    temp_dir,        \* "none", "present" or "removed"
    disk_files,      \* the speaker numbers whose speaker_N.wav is on disk
    temp_files,      \* main's temp_files list (speaker numbers)
    exported_files,  \* main's exported_files list
    error_reported,  \* report_error was called for the job
    remove_failed,   \* an os.remove of cleanup_temp_files raised
    \* ---- add_confidence_markers and compare_transcriptions
    v_pc,            \* position in the proofread / verification stages
    full_transcription,        \* the primary transcription dict
    separated_transcriptions,  \* the per-speaker transcription dicts
    proofread_ran,   \* add_confidence_markers was applied
    compare_in,      \* the primary segments as compare_transcriptions got them
    compare_locals,  \* separated_text and similarity of each loop iteration
    \* ---- _calculate_similarity called directly on two texts
    sim_pc,          \* "call" before the call, "done" after it
    sim_text1,           \* first argument
    sim_text2,           \* second argument
    sim_value,       \* the value returned, as a fraction
    \* ---- _cluster_embeddings called directly on a list of embeddings
    c_pc,            \* "call" before the call, "done" after it
    c_embeddings,    \* the embeddings, as integer vectors
    c_num_speakers,  \* Auto or Count(K)
    c_raised,        \* the call ended with an exception
    c_labels,        \* the labels returned
    \* ---- the model caches and the threads calling the loaders
    cache,           \* _cached_embed_model / _cached_vad_model (0 is None)
    built,           \* handles constructed so far, per model
    t_pc,            \* each thread's position
    t_handle,        \* each thread's local handle under construction
    t_calls,         \* diarize_audio calls each thread has started
    returned,        \* the handles the loaders have returned, per model
    \* ---- _extract_embeddings with any window and period
    x_pc,            \* "call" before the call, "done" after it
    x_len,           \* len_signal
    x_window,        \* len_window
    x_period,        \* len_period
    x_embedded,      \* the windows an embedding was computed from, in order
    x_times,         \* segment_times, in samples
    \* ---- _find_different_words and _create_short_note
    n_pc,            \* "call" before the calls, "done" after them
    n_original,      \* full_text
    n_separated,     \* separated_text
    n_diff,          \* the first element of diff_words (<<>> when empty)
    n_note           \* the note returned

smoothVars == <<segments, smooth_in, smooth_prev, smooth_calls, smooth_flipped>>

diarVars == <<d_pc, len_signal, num_speakers, segment_times, n_embeddings,
              labels, diar_segments, transcription, d_calls>>

cliVars == <<cli_pc, opts, stage_log, result_speakers, temp_dir, disk_files,
             temp_files, exported_files, error_reported, remove_failed>>

verifyVars == <<v_pc, full_transcription, separated_transcriptions,
                proofread_ran, compare_in, compare_locals>>

simVars == <<sim_pc, sim_text1, sim_text2, sim_value>>

clusterVars == <<c_pc, c_embeddings, c_num_speakers, c_raised, c_labels>>

loadVars == <<cache, built, t_pc, t_handle, t_calls, returned>>

extractVars == <<x_pc, x_len, x_window, x_period, x_embedded, x_times>>

noteVars == <<n_pc, n_original, n_separated, n_diff, n_note>>

\* The variables of the specifications of single functions added below.
unitVars == <<clusterVars, loadVars, extractVars, noteVars>>

vars == <<segments, smooth_in, smooth_prev, smooth_calls, smooth_flipped,
          d_pc, len_signal, num_speakers, segment_times, n_embeddings,
          labels, diar_segments, transcription, d_calls,
          cli_pc, opts, stage_log, result_speakers, temp_dir, disk_files,
          temp_files, exported_files, error_reported, remove_failed,
          v_pc, full_transcription, separated_transcriptions, proofread_ran,
          compare_in, compare_locals,
          sim_pc, sim_text1, sim_text2, sim_value,
          c_pc, c_embeddings, c_num_speakers, c_raised, c_labels,
          cache, built, t_pc, t_handle, t_calls, returned,
          x_pc, x_len, x_window, x_period, x_embedded, x_times,
          n_pc, n_original, n_separated, n_diff, n_note>>

(***************************************************************************)
(* Python dict helpers                                                     *)
(***************************************************************************)

\* Python's None, as returned by dict.get on an absent key.
None == "<None>"

\* d.get(k, default)
Get(d, k, default) == IF k \in DOMAIN d THEN d[k] ELSE default

\* An assignment that replaces the dict by one holding the key alone.
PutFresh(d, k, v) == [x \in {k} |-> v]

\* d[k] = v
Put(d, k, v) == [x \in DOMAIN d \cup {k} |-> IF x = k THEN v ELSE d[x]]

\* The num_speakers argument: None (auto-detect) is the empty tuple, the
\* integer k is the one-element tuple <<k>>.
Auto == <<>>
Count(k) == <<k>>

\* seg.get("speaker")
GetSpeaker(seg) == Get(seg, "speaker", None)

\* Truthiness of `s.get("speaker") and s["speaker"] != "Unknown"`.
KnownSpeaker(s) == s # None /\ s # "" /\ s # "Unknown"

(***************************************************************************)
(* The state of each part of the program before it is used                 *)
(***************************************************************************)

SmoothIdle ==
    /\ segments = <<>>
    /\ smooth_in = <<>>
    /\ smooth_prev = <<>>
    /\ smooth_calls = 0
    /\ smooth_flipped = <<>>

DiarIdle ==
    /\ d_pc = "idle"
    /\ len_signal = 0
    /\ num_speakers = Auto
    /\ segment_times = <<>>
    /\ n_embeddings = 0
    /\ labels = <<>>
    /\ diar_segments = <<>>
    /\ transcription = [segments |-> <<>>]
    /\ d_calls = <<>>

CliIdle ==
    /\ cli_pc = "idle"
    /\ opts = [proofread |-> FALSE, verify |-> FALSE, num_speakers |-> Auto,
               formats |-> <<>>]
    /\ stage_log = <<>>
    /\ result_speakers = Auto
    /\ temp_dir = "none"
    /\ disk_files = {}
    /\ temp_files = <<>>
    /\ exported_files = <<>>
    /\ error_reported = FALSE
    /\ remove_failed = FALSE

VerifyIdle ==
    /\ v_pc = "idle"
    /\ full_transcription = [segments |-> <<>>]
    /\ separated_transcriptions = <<>>
    /\ proofread_ran = FALSE
    /\ compare_in = <<>>
    /\ compare_locals = <<>>

SimIdle ==
    /\ sim_pc = "idle"
    /\ sim_text1 = <<>>
    /\ sim_text2 = <<>>
    /\ sim_value = [num |-> 0, den |-> 1]

ClusterIdle ==
    /\ c_pc = "idle"
    /\ c_embeddings = <<>>
    /\ c_num_speakers = Auto
    /\ c_raised = FALSE
    /\ c_labels = <<>>

LoadIdle ==
    /\ cache = <<>>
    /\ built = <<>>
    /\ t_pc = <<>>
    /\ t_handle = <<>>
    /\ t_calls = <<>>
    /\ returned = <<>>

ExtractIdle ==
    /\ x_pc = "idle"
    /\ x_len = 0
    /\ x_window = 0
    /\ x_period = 0
    /\ x_embedded = <<>>
    /\ x_times = <<>>

NoteIdle ==
    /\ n_pc = "idle"
    /\ n_original = <<>>
    /\ n_separated = <<>>
    /\ n_diff = <<>>
    /\ n_note = <<>>

UnitIdle == ClusterIdle /\ LoadIdle /\ ExtractIdle /\ NoteIdle

(***************************************************************************)
(* diarizer.py: _smooth_speaker_changes                                    *)
(***************************************************************************)

\* The duration below which an isolated flip is absorbed (3.0 s, in ms).
FlipMaxDuration == 3000

\* One visit of Rule 1 at (1-based) index i, reading segs as updated so far.
FlipAt(segs, i) ==
    LET prev_speaker == GetSpeaker(segs[i - 1])
        curr_speaker == GetSpeaker(segs[i])
        next_speaker == GetSpeaker(segs[i + 1])
        seg_duration == segs[i]["end"] - segs[i]["start"]
    IN  IF /\ prev_speaker = next_speaker
           /\ curr_speaker # prev_speaker
           /\ seg_duration < FlipMaxDuration
        THEN [segs EXCEPT ![i] = Put(segs[i], "speaker", prev_speaker)]
        ELSE segs

\* Rule 1 with every index reading its neighbours as they were before the
\* sweep.
FlipSweepStale(segs, i) ==
    [j \in 1..Len(segs) |->
        IF j \in 2..(Len(segs) - 1) THEN FlipAt(segs, j)[j] ELSE segs[j]]

\* Rule 1: for i in range(1, len(segments) - 1), i.e. 1-based 2..n-1.
RECURSIVE FlipSweep(_, _)
FlipSweep(segs, i) ==
    IF i > Len(segs) - 1 THEN segs
    ELSE FlipSweep(FlipAt(segs, i), i + 1)

\* Nearest known speaker strictly before index i (scanning i-1 down to 1).
RECURSIVE PrevKnown(_, _)
PrevKnown(segs, j) ==
    IF j < 1 THEN None
    ELSE IF KnownSpeaker(GetSpeaker(segs[j])) THEN segs[j]["speaker"]
    ELSE PrevKnown(segs, j - 1)

\* Nearest known speaker strictly after index i (scanning i+1 up to n).
RECURSIVE NextKnown(_, _)
NextKnown(segs, j) ==
    IF j > Len(segs) THEN None
    ELSE IF KnownSpeaker(GetSpeaker(segs[j])) THEN segs[j]["speaker"]
    ELSE NextKnown(segs, j + 1)

\* One visit of Rule 2 at index i.
FillAt(segs, i) ==
    IF GetSpeaker(segs[i]) = "Unknown" \/ GetSpeaker(segs[i]) = None
    THEN LET prev_speaker == PrevKnown(segs, i - 1)
             next_speaker == NextKnown(segs, i + 1)
         IN  IF prev_speaker # None
             THEN [segs EXCEPT ![i] = Put(segs[i], "speaker", prev_speaker)]
             ELSE IF next_speaker # None
             THEN [segs EXCEPT ![i] = Put(segs[i], "speaker", next_speaker)]
             ELSE segs
    ELSE segs

\* Rule 2: for i, seg in enumerate(segments), in place.
RECURSIVE GapFill(_, _)
GapFill(segs, i) ==
    IF i > Len(segs) THEN segs
    ELSE GapFill(FillAt(segs, i), i + 1)

\* Mutant of _smooth_speaker_changes: Rule 1 reads the neighbours as they were
\* before the sweep instead of as updated by it.
smooth_speaker_changes_stale(segs) ==
    IF Len(segs) < 3 THEN segs
    ELSE GapFill([i \in 1..Len(segs) |->
                    IF i \in 2..(Len(segs) - 1) THEN FlipAt(segs, i)[i]
                    ELSE segs[i]], 1)

\* The list when the first loop of _smooth_speaker_changes has ended (or at
\* the early return for fewer than 3 segments).
first_loop(segs) ==
    IF Len(segs) < 3 THEN segs
    ELSE FlipSweep(segs, 2)

\* _smooth_speaker_changes(segments): the list after the call.
smooth_speaker_changes(segs) ==
    IF Len(segs) < 3 THEN segs
    ELSE GapFill(FlipSweep(segs, 2), 1)

(***************************************************************************)
(* diarizer.py: _extract_embeddings, diarize_audio                         *)
(*                                                                         *)
(* Window and diarization times are kept in samples (seconds * 16000);     *)
(* transcript times are in milliseconds. Comparisons between the two are   *)
(* made on the common scale seconds * 16000.                               *)
(***************************************************************************)

\* sample_rate: _load_audio is always called with target_sr=16000.
SampleRate == 16000

\* len_window = int(1.5 * 16000)
LenWindow == 24000

\* len_period = int(0.75 * 16000)
LenPeriod == 12000

\* Windows shorter than this many samples get no embedding.
MinSamples == 1600

\* The while loop and the trailing partial window: segments as [i, j] pairs.
RECURSIVE WindowLoop(_, _, _)
WindowLoop(start, len, acc) ==
    IF start + LenWindow < len
    THEN WindowLoop(start + LenPeriod, len, Append(acc, <<start, start + LenWindow>>))
    ELSE IF start < len THEN Append(acc, <<start, len>>)
    ELSE acc

\* Mutant of the window list: the trailing partial window is put first.
ExtractWindowsTailFirst(len) ==
    LET ws == WindowLoop(0, len, <<>>)
    IN  IF Len(ws) < 2 THEN ws
        ELSE <<ws[Len(ws)]>> \o SubSeq(ws, 1, Len(ws) - 1)

\* The list `segments` of _extract_embeddings for a signal of `len` samples.
ExtractWindows(len) == WindowLoop(0, len, <<>>)

\* The length test reversed: only the windows that are too short get an
\* embedding.
LongEnoughReversed(w) == w[2] - w[1] < MinSamples

\* The length test with the boundary excluded: a window of exactly the
\* minimum length is skipped too.
LongEnoughStrict(w) == w[2] - w[1] > MinSamples

\* A window is skipped when signal_seg.shape[1] < 1600.
LongEnough(w) == w[2] - w[1] >= MinSamples

\* len(embeddings): one embedding per window that is not skipped.
CountEmbeddings(ws) == Len(SelectSeq(ws, LongEnough))

\* segment_times: the first len(embeddings) windows, as times.
SegmentTimes(ws, n) ==
    [i \in 1..n |-> [start |-> ws[i][1], end |-> ws[i][2]]]

\* f"Speaker {label + 1}"
SpeakerName(label) == "Speaker " \o ToString(label + 1)

\* seg_mid on the scale seconds * 16000 (transcript times are in ms).
SegMid(trans_seg) == 8 * (trans_seg["start"] + trans_seg["end"])

Abs(x) == IF x < 0 THEN -x ELSE x

\* The first diarization segment, from index i on, with start <= mid <= end;
\* 0 when there is none.
RECURSIVE FirstContaining(_, _, _)
FirstContaining(diar, mid, i) ==
    IF i > Len(diar) THEN 0
    ELSE IF diar[i]["start"] <= mid /\ mid <= diar[i]["end"] THEN i
    ELSE FirstContaining(diar, mid, i + 1)

BoundaryDistance(d, mid) ==
    LET a == Abs(d["start"] - mid)
        b == Abs(d["end"] - mid)
    IN  IF a <= b THEN a ELSE b

\* The nearest-boundary search keeping the last element attaining the minimum.
RECURSIVE ClosestFromLast(_, _, _, _)
ClosestFromLast(diar, mid, i, best) ==
    IF i > Len(diar) THEN best
    ELSE IF BoundaryDistance(diar[i], mid) <= BoundaryDistance(diar[best], mid)
    THEN ClosestFromLast(diar, mid, i + 1, i)
    ELSE ClosestFromLast(diar, mid, i + 1, best)

\* min(diar_segments, key=...): the first element attaining the minimum.
RECURSIVE ClosestFrom(_, _, _, _)
ClosestFrom(diar, mid, i, best) ==
    IF i > Len(diar) THEN best
    ELSE IF BoundaryDistance(diar[i], mid) < BoundaryDistance(diar[best], mid)
    THEN ClosestFrom(diar, mid, i + 1, i)
    ELSE ClosestFrom(diar, mid, i + 1, best)

\* Mutant of the mapping: no nearest-boundary fallback.
MapSpeakerNoFallback(diar, trans_seg) ==
    LET hit == FirstContaining(diar, SegMid(trans_seg), 1)
    IN  IF hit # 0 THEN SpeakerName(diar[hit]["label"]) ELSE "Unknown"

\* Mutant of the mapping: the segment's start is used instead of its midpoint.
MapSpeakerByStart(diar, trans_seg) ==
    LET mid == 16 * trans_seg["start"]
        hit == FirstContaining(diar, mid, 1)
    IN  IF hit # 0 THEN SpeakerName(diar[hit]["label"])
        ELSE IF Len(diar) > 0
        THEN SpeakerName(diar[ClosestFrom(diar, mid, 1, 1)]["label"])
        ELSE "Unknown"

\* The speaker the mapping loop gives one transcript segment.
MapSpeaker(diar, trans_seg) ==
    LET mid == SegMid(trans_seg)
        hit == FirstContaining(diar, mid, 1)
    IN  IF hit # 0 THEN SpeakerName(diar[hit]["label"])
        ELSE IF Len(diar) > 0
        THEN SpeakerName(diar[ClosestFrom(diar, mid, 1, 1)]["label"])
        ELSE "Unknown"

\* The number of segments with a known speaker (not of distinct speakers).
CountSpeakerSegments(segs) ==
    Cardinality({i \in 1..Len(segs) : KnownSpeaker(GetSpeaker(segs[i]))})

\* len(unique_speakers) if unique_speakers else 0
CountSpeakers(segs) ==
    Cardinality({GetSpeaker(segs[i]) : i \in 1..Len(segs)}
                    \ {None, "", "Unknown"})

(***************************************************************************)
(* Specification SpecDiarize: one call of diarize_audio                    *)
(***************************************************************************)

\* Signal lengths tried are multiples of 4000 samples up to this many, plus
\* two lengths around the minimum window length.
MaxSigSteps == 12

\* Most transcript segments in a transcription.
MaxTrans == 3

\* Largest cluster label the clusterer may return.
MaxLabel == 1

SignalLens == {k * 4000 : k \in 0..MaxSigSteps} \cup {800, 1600}

\* Transcript segment boundaries, in ms.
TransTimes == {0, 750, 1500, 2250, 3000, 4000}

\* Intervals an ASR segment may span (start < end).
TransIntervals ==
    {iv \in [start : TransTimes, end : TransTimes] : iv["start"] < iv["end"]}

\* ASR segment lists of length n: consecutive, non-overlapping segments.
RECURSIVE TransSegmentLists(_)
TransSegmentLists(n) ==
    IF n = 0 THEN {<<>>}
    ELSE {Append(q[1], q[2]) :
            q \in {r \in TransSegmentLists(n - 1) \X TransIntervals :
                      \/ Len(r[1]) = 0
                      \/ r[1][Len(r[1])]["end"] <= r[2]["start"]}}

InitDiarize ==
    /\ SmoothIdle
    /\ CliIdle
    /\ VerifyIdle
    /\ SimIdle
    /\ UnitIdle
    /\ d_pc = "extract"
    /\ len_signal \in SignalLens
    /\ num_speakers \in {Auto} \cup {Count(k) : k \in 1..(MaxLabel + 1)}
    /\ segment_times = <<>>
    /\ n_embeddings = 0
    /\ labels = <<>>
    /\ diar_segments = <<>>
    /\ \E n \in 0..MaxTrans : \E segs \in TransSegmentLists(n) :
          transcription = [segments |-> segs]
    /\ d_calls = <<>>

\* The label vectors of n embeddings without the final `labels - 1`:
\* fcluster numbers its flat clusters from 1.
ClusterLabelsOneBased(n, k) ==
    IF n < 2 THEN {[i \in 1..n |-> 0]}
    ELSE [1..n -> 1..(IF k = Auto THEN MaxLabel + 1 ELSE k[1])]

\* The label vectors _cluster_embeddings may return for n embeddings and the
\* requested count k: zeros when n < 2, otherwise fcluster's flat cluster
\* numbers minus one (at most k clusters under criterion "maxclust", any
\* number of clusters under criterion "distance").
ClusterLabels(n, k) ==
    IF n < 2 THEN {[i \in 1..n |-> 0]}
    ELSE [1..n -> 0..(IF k = Auto THEN MaxLabel ELSE k[1] - 1)]

\* The zero-embedding fallback leaves the segment as it is.
FallbackKeep(seg) == seg

\* The zero-embedding fallback: seg["speaker"] = "Speaker 1"
FallbackSpeaker(seg) == Put(seg, "speaker", "Speaker 1")

\* diarize_audio up to the zero-embedding test: _extract_embeddings, then
\* either the single-speaker fallback and return, or on to clustering.
DiarExtract ==
    /\ d_pc = "extract"
    /\ LET ws == ExtractWindows(len_signal)
           n == CountEmbeddings(ws)
       IN  /\ n_embeddings' = n
           /\ segment_times' = SegmentTimes(ws, n)
           /\ IF n = 0
              THEN /\ transcription' =
                        Put([transcription EXCEPT !["segments"] =
                                [i \in 1..Len(transcription["segments"]) |->
                                    FallbackSpeaker(transcription["segments"][i])]],
                            "speakers", 1)
                   /\ d_pc' = "done"
              ELSE /\ UNCHANGED transcription
                   /\ d_pc' = "cluster"
    /\ d_calls' = Append(d_calls, "_extract_embeddings")
    /\ UNCHANGED <<len_signal, num_speakers, labels, diar_segments>>
    /\ UNCHANGED smoothVars
    /\ UNCHANGED cliVars
    /\ UNCHANGED verifyVars
    /\ UNCHANGED simVars
    /\ UNCHANGED unitVars

\* _cluster_embeddings: one zero-based label per embedding; the clustering
\* itself is scipy's, so any labelling within the requested count may come back.
DiarCluster ==
    /\ d_pc = "cluster"
    /\ \E ls \in ClusterLabels(n_embeddings, num_speakers) : labels' = ls
    /\ d_pc' = "map"
    /\ d_calls' = Append(d_calls, "_cluster_embeddings")
    /\ UNCHANGED <<len_signal, num_speakers, segment_times, n_embeddings,
                   diar_segments, transcription>>
    /\ UNCHANGED smoothVars
    /\ UNCHANGED cliVars
    /\ UNCHANGED verifyVars
    /\ UNCHANGED simVars
    /\ UNCHANGED unitVars

\* Building diar_segments and the mapping loop over the transcript segments.
DiarMap ==
    /\ d_pc = "map"
    /\ LET diar == [i \in 1..Len(segment_times) |->
                        [start |-> segment_times[i]["start"],
                         end |-> segment_times[i]["end"],
                         label |-> labels[i]]]
       IN  /\ diar_segments' = diar
           /\ transcription' =
                [transcription EXCEPT !["segments"] =
                    [i \in 1..Len(transcription["segments"]) |->
                        Put(transcription["segments"][i], "speaker",
                            MapSpeaker(diar, transcription["segments"][i]))]]
    /\ d_pc' = "smooth"
    /\ d_calls' = Append(d_calls, "map")
    /\ UNCHANGED <<len_signal, num_speakers, segment_times, n_embeddings, labels>>
    /\ UNCHANGED smoothVars
    /\ UNCHANGED cliVars
    /\ UNCHANGED verifyVars
    /\ UNCHANGED simVars
    /\ UNCHANGED unitVars

\* _smooth_speaker_changes, the speaker count, and return.
DiarSmooth ==
    /\ d_pc = "smooth"
    /\ LET segs == smooth_speaker_changes(transcription["segments"])
       IN  transcription' =
              Put([transcription EXCEPT !["segments"] = segs],
                  "speakers", CountSpeakers(segs))
    /\ d_pc' = "done"
    /\ d_calls' = Append(d_calls, "_smooth_speaker_changes")
    /\ UNCHANGED <<len_signal, num_speakers, segment_times, n_embeddings,
                   labels, diar_segments>>
    /\ UNCHANGED smoothVars
    /\ UNCHANGED cliVars
    /\ UNCHANGED verifyVars
    /\ UNCHANGED simVars
    /\ UNCHANGED unitVars

\* A collaborator raises before the mapping loop: a model loader, the VAD
\* or the embedding extractor (lines 335-346), or the clustering (line 355).
\* The exception leaves diarize_audio; nothing was written yet.
DiarRaise ==
    /\ d_pc \in {"extract", "cluster"}
    /\ d_pc' = "raised"
    /\ UNCHANGED <<len_signal, num_speakers, segment_times, n_embeddings,
                   labels, diar_segments, transcription, d_calls>>
    /\ UNCHANGED smoothVars
    /\ UNCHANGED cliVars
    /\ UNCHANGED verifyVars
    /\ UNCHANGED simVars
    /\ UNCHANGED unitVars

NextDiarize == DiarExtract \/ DiarCluster \/ DiarMap \/ DiarSmooth \/ DiarRaise

SpecDiarize == InitDiarize /\ [][NextDiarize]_vars

\* Indices of the diarization segments with mid strictly inside / inside.
StrictlyInside(diar, mid) ==
    {k \in 1..Len(diar) : diar[k]["start"] < mid /\ mid < diar[k]["end"]}

Inside(diar, mid) ==
    {k \in 1..Len(diar) : diar[k]["start"] <= mid /\ mid <= diar[k]["end"]}

\* C4 (as stated): the diarization segment list built by diarize_audio is
\* sorted by start time and pairwise non-overlapping.
C4_SortedNonOverlapping ==
    \A i, j \in 1..Len(diar_segments) :
        i < j => /\ diar_segments[i]["start"] <= diar_segments[j]["start"]
                 /\ diar_segments[i]["end"] <= diar_segments[j]["start"]

\* C4 (amended): the list is sorted by start time, each segment starting one
\* hop (0.75 s) after the previous one and ending after it, and consecutive
\* segments overlap: each starts before the previous one ends.
C4_SortedOverlapping ==
    \A i \in 1..(Len(diar_segments) - 1) :
        /\ diar_segments[i + 1]["start"] = diar_segments[i]["start"] + LenPeriod
        /\ diar_segments[i]["end"] < diar_segments[i + 1]["end"]
        /\ diar_segments[i + 1]["start"] < diar_segments[i]["end"]

\* C4 witness: the mapping step has been handed three or more segments.
C4_Witness == d_pc = "smooth" /\ Len(diar_segments) >= 3

\* C5 (as stated): after the mapping step, a transcript segment whose midpoint
\* lies strictly inside exactly one diarization interval has the speaker
\* "Speaker {label+1}" of that interval.
C5_StrictlyInsideOne ==
    d_pc = "smooth" =>
        \A i \in 1..Len(transcription["segments"]) :
            LET seg == transcription["segments"][i]
                in == StrictlyInside(diar_segments, SegMid(seg))
            IN  Cardinality(in) = 1 =>
                    \A k \in in :
                        seg["speaker"] =
                            "Speaker " \o ToString(diar_segments[k]["label"] + 1)

\* C5 (amended): after the mapping step, a transcript segment whose midpoint
\* lies in exactly one diarization interval, endpoints included, has the
\* speaker "Speaker {label+1}" of that interval.
C5_InsideOne ==
    d_pc = "smooth" =>
        \A i \in 1..Len(transcription["segments"]) :
            LET seg == transcription["segments"][i]
                in == Inside(diar_segments, SegMid(seg))
            IN  Cardinality(in) = 1 =>
                    \A k \in in :
                        seg["speaker"] =
                            "Speaker " \o ToString(diar_segments[k]["label"] + 1)

\* C5 witness: mapping done over segments with different labels, one transcript
\* segment having its midpoint in exactly one interval that is not the first.
C5_Witness ==
    /\ d_pc = "smooth"
    /\ \E i \in 1..Len(transcription["segments"]) :
          LET in == Inside(diar_segments, SegMid(transcription["segments"][i]))
          IN  /\ Cardinality(in) = 1
              /\ 1 \notin in
              /\ \E k \in in : diar_segments[k]["label"] # diar_segments[1]["label"]

\* C6: after the mapping step every transcript segment carries a speaker
\* string, and it is "Unknown" only if the diarization list was empty.
C6_UnknownOnlyIfNoDiarization ==
    d_pc = "smooth" =>
        \A i \in 1..Len(transcription["segments"]) :
            LET seg == transcription["segments"][i]
            IN  /\ "speaker" \in DOMAIN seg
                /\ seg["speaker"] # None
                /\ seg["speaker"] = "Unknown" => diar_segments = <<>>

\* C6 witness: mapping done with a transcript segment whose midpoint no
\* diarization interval contains (the nearest-boundary fallback decided it).
C6_Witness ==
    /\ d_pc = "smooth"
    /\ \E i \in 1..Len(transcription["segments"]) :
          /\ Inside(diar_segments, SegMid(transcription["segments"][i])) = {}
          /\ "speaker" \in DOMAIN transcription["segments"][i]

\* The distinct speaker strings other than "Unknown" carried by the segments.
DistinctSpeakers(segs) ==
    {segs[i]["speaker"] : i \in {k \in 1..Len(segs) : "speaker" \in DOMAIN segs[k]}}
        \ {"Unknown"}

\* C12 (as stated): whenever diarize_audio has returned, on the normal path or
\* on the zero-embedding fallback path, speakers equals the number of distinct
\* speaker strings other than "Unknown" carried by the segments, for any
\* number of transcript segments including zero.
C12_SpeakersIsDistinctCount ==
    d_pc = "done" =>
        /\ "speakers" \in DOMAIN transcription
        /\ transcription["speakers"]
               = Cardinality(DistinctSpeakers(transcription["segments"]))

\* C12 (amended): on the normal path speakers equals that number, for any
\* number of transcript segments including zero; on the zero-embedding
\* fallback path speakers is 1, which equals that number exactly when the
\* transcription has at least one segment.
C12_SpeakersCountOrFallbackOne ==
    d_pc = "done" =>
        /\ "speakers" \in DOMAIN transcription
        /\ n_embeddings > 0 =>
              transcription["speakers"]
                  = Cardinality(DistinctSpeakers(transcription["segments"]))
        /\ n_embeddings = 0 =>
              /\ transcription["speakers"] = 1
              /\ Cardinality(DistinctSpeakers(transcription["segments"]))
                     = IF transcription["segments"] = <<>> THEN 0 ELSE 1

\* C12 witness: diarize_audio has returned on the normal path with three
\* segments carrying two distinct speakers.
C12_Witness ==
    /\ d_pc = "done"
    /\ n_embeddings > 0
    /\ Len(transcription["segments"]) = 3
    /\ transcription["speakers"] = 2

\* The length in samples of the i-th window of segment_times.
WindowLength(i) == segment_times[i]["end"] - segment_times[i]["start"]

\* C19: once _extract_embeddings has returned for a signal of L samples, the
\* windows start at 0, P, 2P, ...; each has length W except possibly the last,
\* which is no longer than W; no window follows one that reached the end of
\* the signal; a window shorter than the minimum viable length is never kept
\* and the last window ends at L whenever L is at least that minimum; L < W
\* with L >= minimum gives exactly the one window [0, L]; L < minimum gives
\* zero windows.
C19_Windowing ==
    d_pc \notin {"extract", "raised"} =>
        LET n == Len(segment_times)
        IN  /\ \A i \in 1..n :
                  /\ segment_times[i]["start"] = (i - 1) * LenPeriod
                  /\ WindowLength(i) <= LenWindow
                  /\ WindowLength(i) >= MinSamples
                  /\ i < n => /\ WindowLength(i) = LenWindow
                              /\ segment_times[i]["end"] < len_signal
            /\ len_signal >= MinSamples =>
                  /\ n >= 1
                  /\ segment_times[n]["end"] = len_signal
            /\ (len_signal < LenWindow /\ len_signal >= MinSamples) =>
                  segment_times = <<[start |-> 0, end |-> len_signal]>>
            /\ len_signal < MinSamples => n = 0
            /\ n_embeddings = n

\* C19 witness: a signal of 2.5 s has been cut into two full windows and a
\* final window of 1.0 s.
C19_Witness ==
    /\ d_pc \notin {"extract", "raised"}
    /\ len_signal = 40000
    /\ Len(segment_times) = 3
    /\ segment_times[3] = [start |-> 24000, end |-> 40000]

\* C20: once _cluster_embeddings has returned, there is exactly one label per
\* embedding, every label is a zero-based integer below the requested count
\* when one is given, and every label is 0 when there are fewer than 2
\* embeddings or the requested count is 1; for zero embeddings the only
\* result is the empty vector.
C20_ClusterLabels ==
    /\ \A k \in {Auto} \cup {Count(j) : j \in 1..(MaxLabel + 1)} :
          ClusterLabels(0, k) = {<<>>}
    /\ d_pc \in {"map", "smooth", "done"} /\ n_embeddings > 0 =>
          /\ DOMAIN labels = 1..n_embeddings
          /\ \A i \in 1..n_embeddings :
                /\ labels[i] \in Nat
                /\ num_speakers # Auto => labels[i] < num_speakers[1]
                /\ (n_embeddings < 2 \/ num_speakers = Count(1)) => labels[i] = 0

\* C20 witness: three embeddings clustered with K = 1 are all labelled 0.
C20_Witness ==
    /\ d_pc = "map"
    /\ n_embeddings = 3
    /\ num_speakers = Count(1)
    /\ labels = <<0, 0, 0>>

\* C13: if embedding extraction yields zero usable embeddings, diarize_audio
\* returns right after it, without clustering, mapping or smoothing; every
\* transcript segment then has speaker "Speaker 1" and speakers is 1.
C13_ZeroEmbeddingFallback ==
    (d_pc \notin {"extract", "raised"} /\ n_embeddings = 0) =>
        /\ d_pc = "done"
        /\ d_calls = <<"_extract_embeddings">>
        /\ labels = <<>>
        /\ diar_segments = <<>>
        /\ \A i \in 1..Len(transcription["segments"]) :
              GetSpeaker(transcription["segments"][i]) = "Speaker 1"
        /\ Get(transcription, "speakers", 0) = 1

\* C13 witness: the fallback was taken on a signal too short for an embedding,
\* with two or more transcript segments.
C13_Witness ==
    /\ d_pc = "done"
    /\ n_embeddings = 0
    /\ len_signal > 0
    /\ Len(transcription["segments"]) >= 2

(***************************************************************************)
(* Python str and difflib, on texts kept as sequences of one-character     *)
(* strings, and on sequences of words                                      *)
(***************************************************************************)

UpperCase == <<"A", "B", "C", "D", "E", "F", "G", "H", "I", "J", "K", "L", "M",
               "N", "O", "P", "Q", "R", "S", "T", "U", "V", "W", "X", "Y", "Z">>

LowerCase == <<"a", "b", "c", "d", "e", "f", "g", "h", "i", "j", "k", "l", "m",
               "n", "o", "p", "q", "r", "s", "t", "u", "v", "w", "x", "y", "z">>

IsSpace(c) == c \in {" ", "\t", "\n", "\r"}

\* str.lower(), on the ASCII letters
LowerChar(c) ==
    IF \E i \in 1..Len(UpperCase) : UpperCase[i] = c
    THEN LowerCase[CHOOSE i \in 1..Len(UpperCase) : UpperCase[i] = c]
    ELSE c

Lower(t) == [i \in 1..Len(t) |-> LowerChar(t[i])]

RECURSIVE LStrip(_)
LStrip(t) == IF t # <<>> /\ IsSpace(Head(t)) THEN LStrip(Tail(t)) ELSE t

RECURSIVE RStrip(_)
RStrip(t) ==
    IF t # <<>> /\ IsSpace(t[Len(t)]) THEN RStrip(SubSeq(t, 1, Len(t) - 1)) ELSE t

\* str.strip()
Strip(t) == RStrip(LStrip(t))

\* str.split(): the maximal runs of non-space characters, in order.
RECURSIVE SplitFrom(_, _, _)
SplitFrom(t, word, acc) ==
    IF t = <<>> THEN (IF word = <<>> THEN acc ELSE Append(acc, word))
    ELSE IF IsSpace(Head(t))
    THEN SplitFrom(Tail(t), <<>>, IF word = <<>> THEN acc ELSE Append(acc, word))
    ELSE SplitFrom(Tail(t), Append(word, Head(t)), acc)

Split(t) == SplitFrom(t, <<>>, <<>>)

\* " ".join(texts)
RECURSIVE JoinSpace(_)
JoinSpace(texts) ==
    IF texts = <<>> THEN <<>>
    ELSE IF Len(texts) = 1 THEN texts[1]
    ELSE texts[1] \o <<" ">> \o JoinSpace(Tail(texts))

\* Length of the common run of a and b starting at 0-based positions i and j,
\* within a[..ahi) and b[..bhi).
RECURSIVE RunLength(_, _, _, _, _, _)
RunLength(a, b, i, j, ahi, bhi) ==
    IF i >= ahi \/ j >= bhi THEN 0
    ELSE IF a[i + 1] # b[j + 1] THEN 0
    ELSE 1 + RunLength(a, b, i + 1, j + 1, ahi, bhi)

\* SequenceMatcher.find_longest_match(alo, ahi, blo, bhi) without junk: the
\* longest matching block, the one starting earliest in a, and of those the
\* one starting earliest in b; <<besti, bestj, bestsize>>, 0-based.
find_longest_match(a, b, alo, ahi, blo, bhi) ==
    LET runs == [i \in alo..(ahi - 1) |->
                    [j \in blo..(bhi - 1) |-> RunLength(a, b, i, j, ahi, bhi)]]
        starts == (alo..(ahi - 1)) \X (blo..(bhi - 1))
        sizes == {runs[p[1]][p[2]] : p \in starts} \cup {0}
        bestsize == CHOOSE k \in sizes : \A m \in sizes : m <= k
        Earlier(p, q) == p[1] < q[1] \/ (p[1] = q[1] /\ p[2] < q[2])
    IN  IF bestsize = 0 THEN <<alo, blo, 0>>
        ELSE LET longest == {p \in starts : runs[p[1]][p[2]] = bestsize}
                 best == CHOOSE p \in longest :
                             \A q \in longest \ {p} : Earlier(p, q)
             IN  <<best[1], best[2], bestsize>>

\* SequenceMatcher.get_matching_blocks(), without the final sentinel: the
\* blocks <<i, j, size>> in increasing order.
RECURSIVE MatchingBlocks(_, _, _, _, _, _)
MatchingBlocks(a, b, alo, ahi, blo, bhi) ==
    LET m == find_longest_match(a, b, alo, ahi, blo, bhi)
    IN  IF m[3] = 0 THEN <<>>
        ELSE (IF alo < m[1] /\ blo < m[2]
              THEN MatchingBlocks(a, b, alo, m[1], blo, m[2]) ELSE <<>>)
             \o <<m>>
             \o (IF m[1] + m[3] < ahi /\ m[2] + m[3] < bhi
                 THEN MatchingBlocks(a, b, m[1] + m[3], ahi, m[2] + m[3], bhi)
                 ELSE <<>>)

get_matching_blocks(a, b) == MatchingBlocks(a, b, 0, Len(a), 0, Len(b))

RECURSIVE SumSizes(_)
SumSizes(blocks) ==
    IF blocks = <<>> THEN 0 ELSE Head(blocks)[3] + SumSizes(Tail(blocks))

\* SequenceMatcher.ratio() as the fraction num/den: 2.0 * matches / length,
\* and 1.0 when both sequences are empty.
Ratio(a, b) ==
    IF Len(a) + Len(b) = 0 THEN [num |-> 1, den |-> 1]
    ELSE [num |-> 2 * SumSizes(get_matching_blocks(a, b)), den |-> Len(a) + Len(b)]

\* The first opcode of SequenceMatcher.get_opcodes() that is not "equal", as
\* <<tag, i1, i2, j1, j2>>; <<"none">> when the sequences are equal.
RECURSIVE FirstEdit(_, _, _, _, _)
FirstEdit(a, b, blocks, i, j) ==
    IF blocks = <<>>
    THEN IF i < Len(a) /\ j < Len(b) THEN <<"replace", i, Len(a), j, Len(b)>>
         ELSE IF i < Len(a) THEN <<"delete", i, Len(a), j, j>>
         ELSE IF j < Len(b) THEN <<"insert", i, i, j, Len(b)>>
         ELSE <<"none">>
    ELSE LET ai == Head(blocks)[1]
             bj == Head(blocks)[2]
             size == Head(blocks)[3]
         IN  IF i < ai /\ j < bj THEN <<"replace", i, ai, j, bj>>
             ELSE IF i < ai THEN <<"delete", i, ai, j, bj>>
             ELSE IF j < bj THEN <<"insert", i, ai, j, bj>>
             ELSE FirstEdit(a, b, Tail(blocks), ai + size, bj + size)

(***************************************************************************)
(* comparator.py.  Times are in milliseconds (the transcriber's            *)
(* start_ms / 1000.0), similarities are exact fractions, and the rounded   *)
(* similarity is kept in hundredths.                                       *)
(***************************************************************************)

\* An Optional[str] result: None is the empty tuple, the text t is <<t>>.
NoText == <<>>
SomeText(t) == <<t>>

\* Truthiness of an Optional[str]: neither None nor "".
Truthy(opt) == opt # NoText /\ opt[1] # <<>>

\* The sums start + end (ms) of the modelled intervals whose midpoint lies
\* halfway between two tenths of a second and that round(mid, 1) rounds up;
\* the other halfway midpoints are rounded down (the float nearest to such a
\* midpoint decides).
HalfwayRoundedUp == {21100}

\* round((start + end) / 2, 1), in ms.
TimeKey(start, end) ==
    LET sum == start + end
        q == sum \div 200
        r == sum % 200
    IN  IF r < 100 THEN 100 * q
        ELSE IF r > 100 THEN 100 * (q + 1)
        ELSE IF sum \in HalfwayRoundedUp THEN 100 * (q + 1)
        ELSE 100 * q

\* The entry _build_time_index appends for one secondary segment.
IndexEntry(segment) ==
    [start |-> Get(segment, "start", 0),
     end |-> Get(segment, "end", 0),
     text |-> Strip(Get(segment, "text", <<>>))]

\* time_index[key].append(entry), creating the bucket at the end of the
\* dict when the key is new.  The dict is a sequence of buckets
\* [key, entries] in insertion order.
AddToIndex(time_index, entry) ==
    LET key == TimeKey(entry["start"], entry["end"])
    IN  IF \E i \in 1..Len(time_index) : time_index[i]["key"] = key
        THEN [i \in 1..Len(time_index) |->
                 IF time_index[i]["key"] = key
                 THEN [time_index[i] EXCEPT !["entries"] = Append(@, entry)]
                 ELSE time_index[i]]
        ELSE Append(time_index, [key |-> key, entries |-> <<entry>>])

RECURSIVE IndexSegments(_, _)
IndexSegments(time_index, segs) ==
    IF segs = <<>> THEN time_index
    ELSE IndexSegments(AddToIndex(time_index, IndexEntry(Head(segs))), Tail(segs))

RECURSIVE IndexTranscriptions(_, _)
IndexTranscriptions(time_index, transcriptions) ==
    IF transcriptions = <<>> THEN time_index
    ELSE IndexTranscriptions(
             IndexSegments(time_index, Get(Head(transcriptions), "segments", <<>>)),
             Tail(transcriptions))

build_time_index(transcriptions) == IndexTranscriptions(<<>>, transcriptions)

\* The overlap test with intervals that touch at an endpoint counted in.
HasOverlapClosed(start1, end1, start2, end2) == start1 <= end2 /\ start2 <= end1

has_overlap(start1, end1, start2, end2) == start1 < end2 /\ start2 < end1

\* The tolerance of _find_matching_text, 2.0 s, in ms.
Tolerance == 2000

\* abs(key - mid) <= tolerance, with mid = (start + end) / 2
WithinTolerance(key, start, end) ==
    Abs(2 * key - (start + end)) <= 2 * Tolerance

RECURSIVE OverlappingTexts(_, _, _)
OverlappingTexts(entries, start, end) ==
    IF entries = <<>> THEN <<>>
    ELSE (IF has_overlap(start, end, Head(entries)["start"], Head(entries)["end"])
          THEN <<Head(entries)["text"]>> ELSE <<>>)
         \o OverlappingTexts(Tail(entries), start, end)

\* matched_texts of _find_matching_text
RECURSIVE MatchedTexts(_, _, _)
MatchedTexts(time_index, start, end) ==
    IF time_index = <<>> THEN <<>>
    ELSE (IF WithinTolerance(Head(time_index)["key"], start, end)
          THEN OverlappingTexts(Head(time_index)["entries"], start, end)
          ELSE <<>>)
         \o MatchedTexts(Tail(time_index), start, end)

find_matching_text(time_index, start, end) ==
    LET matched_texts == MatchedTexts(time_index, start, end)
    IN  IF matched_texts # <<>> THEN SomeText(JoinSpace(matched_texts)) ELSE NoText

\* The similarity without the test for an empty argument.
RatioOfNormalized(text1, text2) ==
    Ratio(Strip(Lower(text1)), Strip(Lower(text2)))

\* _calculate_similarity as a fraction num/den
calculate_similarity(text1, text2) ==
    IF text1 = <<>> \/ text2 = <<>> THEN [num |-> 0, den |-> 1]
    ELSE Ratio(Strip(Lower(text1)), Strip(Lower(text2)))

\* The decision threshold 0.85, in hundredths.
SimilarityThreshold == 85

\* similarity < 0.85
BelowThreshold(sim) == 100 * sim["num"] < SimilarityThreshold * sim["den"]

\* round(similarity, 2) in hundredths, truncating (not the code's rounding).
TruncHundredths(sim) == (100 * sim["num"]) \div sim["den"]

\* round(similarity, 2) in hundredths.  A similarity exactly halfway between
\* two hundredths is an eighth when the texts have fewer than 80 characters
\* together, hence an exact float, which round() takes to the even hundredth.
RoundHundredths(sim) ==
    LET q == (100 * sim["num"]) \div sim["den"]
        r == (100 * sim["num"]) % sim["den"]
    IN  IF 2 * r < sim["den"] THEN q
        ELSE IF 2 * r > sim["den"] THEN q + 1
        ELSE IF q % 2 = 0 THEN q ELSE q + 1

\* The first element of _find_different_words' result, as <<orig, new>> with
\* orig and new sequences of words; <<>> when there is no difference.
FirstDifference(text1, text2) ==
    LET words1 == Split(Lower(text1))
        words2 == Split(Lower(text2))
        op == FirstEdit(words1, words2, get_matching_blocks(words1, words2), 0, 0)
    IN  IF op[1] = "none" THEN <<>>
        ELSE IF op[1] = "replace"
        THEN <<SubSeq(words1, op[2] + 1, op[3]), SubSeq(words2, op[4] + 1, op[5])>>
        ELSE IF op[1] = "delete" THEN <<SubSeq(words1, op[2] + 1, op[3]), <<>>>>
        ELSE <<<<>>, SubSeq(words2, op[4] + 1, op[5])>>

\* text[:n]
Prefix(t, n) == SubSeq(t, 1, IF Len(t) < n THEN Len(t) ELSE n)

CheckAudio == <<"C", "h", "e", "c", "k", " ", "a", "u", "d", "i", "o">>
CheckColon == <<"C", "h", "e", "c", "k", ":", " ">>
MissingColon == <<"M", "i", "s", "s", "i", "n", "g", ":", " ">>
ExtraColon == <<"E", "x", "t", "r", "a", ":", " ">>

\* The note without the cut to 30 or 20 characters.
create_uncut_note(first) ==
    IF first = <<>> THEN CheckAudio
    ELSE IF first[1] # <<>> /\ first[2] # <<>>
    THEN CheckColon \o first[1][1] \o <<"/">> \o first[2][1]
    ELSE IF first[1] # <<>> THEN MissingColon \o first[1][1]
    ELSE ExtraColon \o first[2][1]

\* _create_short_note on the result of _find_different_words: the note is
\* built from the first difference.
create_short_note(first) ==
    IF first = <<>> THEN CheckAudio
    ELSE IF first[1] # <<>> /\ first[2] # <<>>
    THEN Prefix(CheckColon \o first[1][1] \o <<"/">> \o first[2][1], 30)
    ELSE IF first[1] # <<>> THEN Prefix(MissingColon \o first[1][1], 20)
    ELSE Prefix(ExtraColon \o first[2][1], 20)

(***************************************************************************)
(* proofer.py: add_confidence_markers.  Confidences and no-speech          *)
(* probabilities are in ten-thousandths (the transcriber rounds to 4       *)
(* places), confidence_score is in hundredths.                             *)
(***************************************************************************)

\* threshold = -0.5
ConfidenceThreshold == -5000

\* no_speech > 0.5
NoSpeechLimit == 5000

\* math.exp(raw_confidence) in ten-thousandths, at the log probabilities the
\* source comments name.
ExpOf(raw) ==
    CASE raw = -1000 -> 9048
      [] raw = -5000 -> 6065
      [] raw = -10000 -> 3679

\* confidence_pct before the no-speech adjustment
ConfidencePct(raw) == IF raw < 0 THEN ExpOf(raw) ELSE 9500

\* round(confidence_pct * (1 - no_speech), 2)
ConfidenceScore(raw, no_speech) ==
    LET x == ConfidencePct(raw) * (10000 - no_speech)
        q == x \div 1000000
        r == x % 1000000
    IN  IF 2 * r < 1000000 THEN q
        ELSE IF 2 * r > 1000000 THEN q + 1
        ELSE IF q % 2 = 0 THEN q ELSE q + 1

\* The flag with the comparison against the threshold reversed.
NeedsReviewAbove(raw, no_speech) ==
    raw > ConfidenceThreshold \/ no_speech > NoSpeechLimit

\* raw_confidence < threshold or no_speech > 0.5
NeedsReview(raw, no_speech) ==
    raw < ConfidenceThreshold \/ no_speech > NoSpeechLimit

MarkSegment(segment) ==
    LET raw_confidence == Get(segment, "confidence", 0)
        no_speech == Get(segment, "no_speech_prob", 0)
    IN  Put(Put(segment, "confidence_score",
                ConfidenceScore(raw_confidence, no_speech)),
            "needs_review", NeedsReview(raw_confidence, no_speech))

\* The number of segments that have a needs_review key, whatever its value.
CountReviewKeys(segs) ==
    Cardinality({i \in 1..Len(segs) : "needs_review" \in DOMAIN segs[i]})

\* sum(1 for s in segments if s.get("needs_review", False))
RECURSIVE CountNeedsReview(_)
CountNeedsReview(segs) ==
    IF segs = <<>> THEN 0
    ELSE (IF Get(Head(segs), "needs_review", FALSE) THEN 1 ELSE 0)
         + CountNeedsReview(Tail(segs))

add_confidence_markers(trans) ==
    LET segs == [i \in 1..Len(trans["segments"]) |->
                    MarkSegment(trans["segments"][i])]
    IN  Put(Put(trans, "segments", segs), "review_needed", CountNeedsReview(segs))

(***************************************************************************)
(* comparator.py: compare_transcriptions                                   *)
(***************************************************************************)

\* The locals separated_text and similarity of the loop body of
\* compare_transcriptions for one primary segment (similarity is only
\* computed when separated_text is truthy).
MatchSegment(time_index, segment) ==
    LET full_text == Strip(Get(segment, "text", <<>>))
        separated_text ==
            find_matching_text(time_index, segment["start"], segment["end"])
    IN  IF Truthy(separated_text)
        THEN [separated_text |-> separated_text,
              similarity |-> calculate_similarity(full_text, separated_text[1])]
        ELSE [separated_text |-> separated_text]

\* The decision of the loop body, given those locals.
DecideSegment(segment, m) ==
    LET full_text == Strip(Get(segment, "text", <<>>))
        separated_text == m["separated_text"]
    IN  IF ~Truthy(separated_text) THEN segment
        ELSE IF BelowThreshold(m["similarity"])
        THEN Put(Put(Put(segment, "needs_review", TRUE),
                     "review_note",
                     create_short_note(
                         FirstDifference(full_text, separated_text[1]))),
                 "verification",
                 [separated_text |-> separated_text[1],
                  similarity |-> RoundHundredths(m["similarity"])])
        ELSE Put(segment, "verification",
                 Put(Put(Get(segment, "verification", <<>>), "verified", TRUE),
                     "similarity", RoundHundredths(m["similarity"])))

\* The locals of every iteration of the loop.
MatchSegments(full, separated) ==
    LET separated_by_time == build_time_index(separated)
    IN  [i \in 1..Len(full["segments"]) |->
            MatchSegment(separated_by_time, full["segments"][i])]

\* The loop and the recount of review_needed, given the locals.
DecideSegments(full, matches) ==
    LET segs == [i \in 1..Len(full["segments"]) |->
                    DecideSegment(full["segments"][i], matches[i])]
    IN  Put(Put(full, "segments", segs), "review_needed", CountNeedsReview(segs))

compare_transcriptions(full, separated) ==
    DecideSegments(full, MatchSegments(full, separated))

(***************************************************************************)
(* separator.py: separate_by_diarization, cleanup_temp_files               *)
(***************************************************************************)

\* The files separate_by_diarization has written when it stops: it writes
\* speaker_1.wav .. speaker_k.wav in order, and written = k when it returns.
SeparatedFiles(written) == 1..written

\* The files left on disk by cleanup_temp_files(paths) when its os.remove
\* raises at position fail_at of paths (0: no os.remove raises).
FilesAfterCleanup(disk, paths, fail_at) ==
    disk \ {paths[i] : i \in 1..(IF fail_at = 0 THEN Len(paths) ELSE fail_at - 1)}

\* dirs_to_check is non-empty iff some path existed when it was visited.
DirsToCheck(disk, paths, fail_at) ==
    \E i \in 1..(IF fail_at = 0 THEN Len(paths) ELSE fail_at) : paths[i] \in disk

(***************************************************************************)
(* Specification Spec: one job of cli.main                                 *)
(***************************************************************************)

\* Largest --speakers number tried.
MaxSpeakers == 3

\* The guard without its test num_speakers > 1.
VerifyGuardAnyCount(o) == o["verify"] /\ o["num_speakers"] # Auto

\* if verify and num_speakers and num_speakers > 1
VerifyGuard(o) ==
    /\ o["verify"]
    /\ o["num_speakers"] # Auto
    /\ o["num_speakers"][1] # 0
    /\ o["num_speakers"][1] > 1

\* After the proofread step main goes back to the diarization.
BackToDiarize(o) == "diarize"

\* Where main goes after the proofread step (or after skipping it).
AfterProofread(o) == IF VerifyGuard(o) THEN "separate" ELSE "export"

FormatLists == {<<"json">>, <<"txt">>, <<"json", "srt">>}

Init ==
    /\ SmoothIdle
    /\ DiarIdle
    /\ VerifyIdle
    /\ SimIdle
    /\ UnitIdle
    /\ cli_pc = "transcribe"
    /\ opts \in [proofread : BOOLEAN, verify : BOOLEAN,
                 num_speakers : {Auto} \cup {Count(k) : k \in 0..MaxSpeakers},
                 formats : FormatLists]
    /\ stage_log = <<>>
    /\ result_speakers = Auto
    /\ temp_dir = "none"
    /\ disk_files = {}
    /\ temp_files = <<>>
    /\ exported_files = <<>>
    /\ error_reported = FALSE
    /\ remove_failed = FALSE

\* 1. transcribe_audio: returns, or raises (whisper-cli failed).
CliTranscribe ==
    /\ cli_pc = "transcribe"
    /\ stage_log' = Append(stage_log, "transcribe")
    /\ \E ok \in BOOLEAN : cli_pc' = IF ok THEN "diarize" ELSE "except"
    /\ UNCHANGED <<opts, result_speakers, temp_dir, disk_files, temp_files,
                   exported_files, error_reported, remove_failed>>
    /\ UNCHANGED <<smoothVars, diarVars, verifyVars, simVars, unitVars>>

\* 2. diarize_audio: returns a transcription with a speaker count, or a
\* collaborator raises.
CliDiarize ==
    /\ cli_pc = "diarize"
    /\ stage_log' = Append(stage_log, "diarize")
    /\ \/ \E n \in 0..MaxSpeakers :
            /\ (opts["num_speakers"] # Auto => n <= opts["num_speakers"][1])
            /\ result_speakers' = Count(n)
            /\ cli_pc' = IF opts["proofread"] THEN "proofread"
                         ELSE AfterProofread(opts)
       \/ /\ cli_pc' = "except"
          /\ UNCHANGED result_speakers
    /\ UNCHANGED <<opts, temp_dir, disk_files, temp_files, exported_files,
                   error_reported, remove_failed>>
    /\ UNCHANGED <<smoothVars, diarVars, verifyVars, simVars, unitVars>>

\* 3. add_confidence_markers, when --proofread was given: returns, or raises.
CliProofread ==
    /\ cli_pc = "proofread"
    /\ stage_log' = Append(stage_log, "proofread")
    /\ \E ok \in BOOLEAN : cli_pc' = IF ok THEN AfterProofread(opts) ELSE "except"
    /\ UNCHANGED <<opts, result_speakers, temp_dir, disk_files, temp_files,
                   exported_files, error_reported, remove_failed>>
    /\ UNCHANGED <<smoothVars, diarVars, verifyVars, simVars, unitVars>>

\* 4a. tempfile.mkdtemp, separate_by_diarization and temp_files.extend: the
\* separation writes one file per speaker and returns their paths, or raises
\* after having written some of them (temp_files is then never extended).
CliSeparate ==
    /\ cli_pc = "separate"
    /\ stage_log' = Append(stage_log, "verify")
    /\ temp_dir' = "present"
    /\ \E written \in 0..opts["num_speakers"][1], ok \in BOOLEAN :
          /\ ok => written = opts["num_speakers"][1]
          /\ disk_files' = SeparatedFiles(written)
          /\ temp_files' = IF ok THEN [i \in 1..written |-> i] ELSE temp_files
          /\ cli_pc' = IF ok THEN "retranscribe" ELSE "except"
    /\ UNCHANGED <<opts, result_speakers, exported_files, error_reported,
                   remove_failed>>
    /\ UNCHANGED <<smoothVars, diarVars, verifyVars, simVars, unitVars>>

\* 4b. transcribe_audio on every separated file: all return, or one raises.
CliRetranscribe ==
    /\ cli_pc = "retranscribe"
    /\ \E ok \in BOOLEAN : cli_pc' = IF ok THEN "compare" ELSE "except"
    /\ UNCHANGED <<opts, stage_log, result_speakers, temp_dir, disk_files,
                   temp_files, exported_files, error_reported, remove_failed>>
    /\ UNCHANGED <<smoothVars, diarVars, verifyVars, simVars, unitVars>>

\* 4c. compare_transcriptions: returns, or raises.
CliCompare ==
    /\ cli_pc = "compare"
    /\ stage_log' = Append(stage_log, "compare")
    /\ \E ok \in BOOLEAN : cli_pc' = IF ok THEN "cleanup" ELSE "except"
    /\ UNCHANGED <<opts, result_speakers, temp_dir, disk_files, temp_files,
                   exported_files, error_reported, remove_failed>>
    /\ UNCHANGED <<smoothVars, diarVars, verifyVars, simVars, unitVars>>

\* 4d. cleanup_temp_files(temp_files): os.remove of each existing path, which
\* may raise (the exception leaves the function and the stage); then
\* shutil.rmtree(ignore_errors=True) of the emptied directory, whose failure
\* is ignored.
CliCleanup ==
    /\ cli_pc = "cleanup"
    /\ \E fail_at \in 0..Len(temp_files), rmtree_ok \in BOOLEAN :
          /\ fail_at # 0 => temp_files[fail_at] \in disk_files
          /\ fail_at # 0 => rmtree_ok
          /\ disk_files' = FilesAfterCleanup(disk_files, temp_files, fail_at)
          /\ remove_failed' = (fail_at # 0)
          /\ temp_dir' =
                IF /\ fail_at = 0
                   /\ DirsToCheck(disk_files, temp_files, fail_at)
                   /\ temp_dir = "present"
                   /\ disk_files' = {}
                   /\ rmtree_ok
                THEN "removed" ELSE temp_dir
          /\ cli_pc' = IF fail_at = 0 THEN "export" ELSE "except"
    /\ UNCHANGED <<opts, stage_log, result_speakers, temp_files,
                   exported_files, error_reported>>
    /\ UNCHANGED <<smoothVars, diarVars, verifyVars, simVars, unitVars>>

\* 5. The export loop: every format is written, or an exporter raises after
\* some were written (exported_files is then lost with the frame).
CliExport ==
    /\ cli_pc = "export"
    /\ stage_log' = Append(stage_log, "export")
    /\ \E done \in 0..Len(opts["formats"]) :
          /\ exported_files' = SubSeq(opts["formats"], 1, done)
          /\ cli_pc' = IF done = Len(opts["formats"]) THEN "end" ELSE "except"
    /\ UNCHANGED <<opts, result_speakers, temp_dir, disk_files, temp_files,
                   error_reported, remove_failed>>
    /\ UNCHANGED <<smoothVars, diarVars, verifyVars, simVars, unitVars>>

\* The handler that goes on with the export stage after reporting.
AfterExceptExport == "export"

\* After the except block main returns.
AfterExcept == "end"

\* except Exception: report_error and the error message.
CliExcept ==
    /\ cli_pc = "except"
    /\ error_reported' = TRUE
    /\ cli_pc' = AfterExcept
    /\ UNCHANGED <<opts, stage_log, result_speakers, temp_dir, disk_files,
                   temp_files, exported_files, remove_failed>>
    /\ UNCHANGED <<smoothVars, diarVars, verifyVars, simVars, unitVars>>

Next ==
    \/ CliTranscribe \/ CliDiarize \/ CliProofread \/ CliSeparate
    \/ CliRetranscribe \/ CliCompare \/ CliCleanup \/ CliExport \/ CliExcept

Spec == Init /\ [][Next]_vars

\* The verification stage was entered and has been left.
VerificationLeft ==
    /\ \E i \in 1..Len(stage_log) : stage_log[i] = "verify"
    /\ cli_pc \in {"export", "except", "end"}

\* C2: whenever the verification stage has been entered and left, normally or
\* by an exception, no per-speaker temporary file and no temporary directory
\* remains.
C2_TempFilesRemovedOnEveryExit ==
    VerificationLeft => disk_files = {} /\ temp_dir # "present"

\* C3: when a file removal fails in cleanup_temp_files after verification has
\* computed its result, the job still goes on to export and no error is
\* reported for it.
C3_CleanupFailureSwallowed ==
    remove_failed => /\ cli_pc \in {"export", "end"}
                     /\ ~error_reported
                     /\ (cli_pc = "end" => exported_files # <<>>)

\* The place of a logged step in the lifecycle RAW, DIARIZED, PROOFED,
\* VERIFIED, EXPORTED; the comparison belongs to the verification stage.
StageRank(stage) ==
    CASE stage = "transcribe" -> 1
      [] stage = "diarize" -> 2
      [] stage = "proofread" -> 3
      [] stage = "verify" -> 4
      [] stage = "compare" -> 4
      [] stage = "export" -> 5

Occurrences(stage) ==
    Cardinality({i \in 1..Len(stage_log) : stage_log[i] = stage})

\* C14: in every run of the job the stages occur only in the order
\* transcribe, diarize, optional proofread, optional verify, export: no stage
\* runs after export, no earlier stage runs after a later one, every stage is
\* invoked at most once, and a stage runs only after transcribe and diarize.
C14_StageOrder ==
    /\ \A i, j \in 1..Len(stage_log) :
          i < j => /\ StageRank(stage_log[i]) <= StageRank(stage_log[j])
                   /\ StageRank(stage_log[i]) = StageRank(stage_log[j]) =>
                         (stage_log[i] = "verify" /\ stage_log[j] = "compare")
    /\ \A stage \in {"transcribe", "diarize", "proofread", "verify", "compare",
                     "export"} : Occurrences(stage) <= 1
    /\ \A i \in 1..Len(stage_log) :
          /\ i = 1 => stage_log[i] = "transcribe"
          /\ i = 2 => stage_log[i] = "diarize"
    /\ Occurrences("proofread") = 1 => opts["proofread"]
    /\ Occurrences("verify") = 1 => opts["verify"]

\* C14 witness: a job has run all five stages and ended.
C14_Witness ==
    /\ cli_pc = "end"
    /\ stage_log = <<"transcribe", "diarize", "proofread", "verify", "compare",
                     "export">>

\* compare_transcriptions has been invoked in this job.
CompareInvoked == Occurrences("compare") = 1

\* C15 (as stated): compare_transcriptions is invoked only if verification was
\* requested, secondary per-speaker transcriptions were produced, and the
\* speakers value of the diarized transcription is greater than 1.
C15_CompareOnlyIfSpeakersValueAboveOne ==
    CompareInvoked =>
        /\ opts["verify"]
        /\ temp_files # <<>>
        /\ result_speakers # Auto
        /\ result_speakers[1] > 1

\* C15 (amended): compare_transcriptions is invoked only if verification was
\* requested, the --speakers option was a number greater than 1 (not "auto"),
\* and one secondary transcription per requested speaker was produced; the
\* speakers value of the diarized transcription plays no part.
C15_CompareOnlyIfRequestedSpeakersAboveOne ==
    CompareInvoked =>
        /\ opts["verify"]
        /\ opts["num_speakers"] # Auto
        /\ opts["num_speakers"][1] > 1
        /\ Len(temp_files) = opts["num_speakers"][1]

\* C15 witness: the comparison was invoked in a job run with --speakers 2
\* whose diarization found one speaker.
C15_Witness ==
    /\ CompareInvoked
    /\ opts["num_speakers"] = Count(2)
    /\ result_speakers = Count(1)

(***************************************************************************)
(* Specification SpecVerify: the proofread and comparison stages applied   *)
(* to the transcriptions of one job                                        *)
(***************************************************************************)

HolaComoEstas ==
    <<"h", "o", "l", "a", " ", "c", "o", "m", "o", " ", "e", "s", "t",
      "a", "s">>

HolaComoEstasCap ==
    <<"H", "o", "l", "a", " ", "c", "o", "m", "o", " ", "e", "s", "t",
      "a", "s">>

HolaComoEsta ==
    <<"h", "o", "l", "a", " ", "c", "o", "m", "o", " ", "e", "s", "t",
      "a">>

TeVeoElMartes ==
    <<"t", "e", " ", "v", "e", "o", " ", "e", "l", " ", "m", "a", "r",
      "t", "e", "s">>

TeVeoElJueves ==
    <<"t", "e", " ", "v", "e", "o", " ", "e", "l", " ", "j", "u", "e",
      "v", "e", "s">>

TeVeo ==
    <<"t", "e", " ", "v", "e", "o">>

ElMartes ==
    <<"e", "l", " ", "m", "a", "r", "t", "e", "s">>

CheckMartesJueves ==
    <<"C", "h", "e", "c", "k", ":", " ", "m", "a", "r", "t", "e", "s",
      "/", "j", "u", "e", "v", "e", "s">>

\* Number of per-speaker transcriptions (the stage runs with >= 2 speakers).
NumSeparated == 2

\* The confidences the transcriber yields are averages of token
\* probabilities, rounded to 4 places: 0 (no word token) and 0.95 here.
ConfChoices == {0, 9500}

\* A primary segment as transcribe_audio builds it.
PrimarySegment(start, end, text, confidence) ==
    [start |-> start, end |-> end, text |-> text, confidence |-> confidence,
     no_speech_prob |-> 0]

\* The primary segments at [0.0, 2.0] and at [10.0, 12.0].
PrimaryFirst ==
    {PrimarySegment(0, 2000, t, c) :
        t \in {HolaComoEstas, HolaComoEstasCap, <<>>}, c \in ConfChoices}

PrimarySecond ==
    {PrimarySegment(10000, 12000, TeVeoElMartes, c) : c \in ConfChoices}

PrimaryLists ==
    {<<>>} \cup {<<a>> : a \in PrimaryFirst} \cup {<<b>> : b \in PrimarySecond}
    \cup {<<a, b>> : a \in PrimaryFirst, b \in PrimarySecond}

SecondarySegment(start, end, text) == [start |-> start, end |-> end, text |-> text]

\* The segment lists of one per-speaker transcription: none or one segment.
SecondaryLists ==
    {<<>>} \cup
    {<<seg>> : seg \in
        {SecondarySegment(100, 1900, HolaComoEstas),
         SecondarySegment(100, 1900, HolaComoEsta),
         SecondarySegment(100, 1900, <<>>),
         SecondarySegment(10100, 11800, TeVeoElJueves),
         SecondarySegment(10100, 11000, TeVeo),
         SecondarySegment(11000, 11800, ElMartes),
         SecondarySegment(14100, 15900, HolaComoEstas)}}

InitVerify ==
    /\ SmoothIdle
    /\ DiarIdle
    /\ CliIdle
    /\ SimIdle
    /\ UnitIdle
    /\ v_pc = "proofread"
    /\ \E segs \in PrimaryLists : full_transcription = [segments |-> segs]
    /\ \E lists \in [1..NumSeparated -> SecondaryLists] :
          separated_transcriptions =
              [i \in 1..NumSeparated |-> [segments |-> lists[i]]]
    /\ proofread_ran = FALSE
    /\ compare_in = <<>>
    /\ compare_locals = <<>>

\* --proofread was given: add_confidence_markers(result).
VerifyProofread ==
    /\ v_pc = "proofread"
    /\ full_transcription' = add_confidence_markers(full_transcription)
    /\ proofread_ran' = TRUE
    /\ v_pc' = "compare"
    /\ UNCHANGED <<separated_transcriptions, compare_in, compare_locals>>
    /\ UNCHANGED <<smoothVars, diarVars, cliVars, simVars, unitVars>>

\* --proofread was not given.
VerifySkipProofread ==
    /\ v_pc = "proofread"
    /\ v_pc' = "compare"
    /\ UNCHANGED <<full_transcription, separated_transcriptions, proofread_ran,
                   compare_in, compare_locals>>
    /\ UNCHANGED <<smoothVars, diarVars, cliVars, simVars, unitVars>>

\* compare_transcriptions(result, separated_transcriptions).
VerifyCompare ==
    /\ v_pc = "compare"
    /\ compare_in' = full_transcription["segments"]
    /\ compare_locals' = MatchSegments(full_transcription, separated_transcriptions)
    /\ full_transcription' = DecideSegments(full_transcription, compare_locals')
    /\ v_pc' = "done"
    /\ UNCHANGED <<separated_transcriptions, proofread_ran>>
    /\ UNCHANGED <<smoothVars, diarVars, cliVars, simVars, unitVars>>

NextVerify == VerifyProofread \/ VerifySkipProofread \/ VerifyCompare

SpecVerify == InitVerify /\ [][NextVerify]_vars

\* The secondary segments of all per-speaker transcriptions, in order.
RECURSIVE AllSecondary(_)
AllSecondary(transcriptions) ==
    IF transcriptions = <<>> THEN <<>>
    ELSE Get(Head(transcriptions), "segments", <<>>) \o AllSecondary(Tail(transcriptions))

\* r hundredths is the fraction sim rounded to 2 places.
IsRoundedTo2(r, sim) ==
    LET d == 100 * sim["num"] - r * sim["den"]
    IN  2 * d <= sim["den"] /\ 2 * d >= - sim["den"]

\* Primary segment seg is `text` at [start, end] and the only secondary
\* segment is `sec_text` at [sec_start, sec_end].
Against(seg, start, end, text, sec_start, sec_end, sec_text) ==
    /\ seg["start"] = start /\ seg["end"] = end /\ seg["text"] = text
    /\ AllSecondary(separated_transcriptions)
           = <<SecondarySegment(sec_start, sec_end, sec_text)>>

\* Segment i of the primary transcription before and after the comparison.
Before(i) == compare_in[i]
After(i) == full_transcription["segments"][i]

\* The aligned text and the similarity compare_transcriptions computed for
\* segment i.
AlignedText(i) == compare_locals[i]["separated_text"]
Similarity(i) == compare_locals[i]["similarity"]

LowSimilarity(i) ==
    /\ Truthy(AlignedText(i))
    /\ BelowThreshold(Similarity(i))

HighSimilarity(i) ==
    /\ Truthy(AlignedText(i))
    /\ ~BelowThreshold(Similarity(i))

\* C9: after compare_transcriptions, every primary segment with aligned
\* secondary text and similarity below 0.85 has needs_review = true, a
\* review_note, and verification exactly {separated_text: the aligned text,
\* similarity: the value rounded to 2 places}; "te veo el martes" at
\* [10.0, 12.0] against "te veo el jueves" at [10.1, 11.8] gets similarity
\* 0.75 < 0.85, needs_review = true, the note "Check: martes/jueves" and
\* separated_text "te veo el jueves".
C9_LowSimilarityDecision ==
    v_pc = "done" =>
        \A i \in 1..Len(compare_in) :
            /\ LowSimilarity(i) =>
                  /\ Get(After(i), "needs_review", FALSE) = TRUE
                  /\ "review_note" \in DOMAIN After(i)
                  /\ After(i)["review_note"] # <<>>
                  /\ "verification" \in DOMAIN After(i)
                  /\ DOMAIN After(i)["verification"] = {"separated_text", "similarity"}
                  /\ After(i)["verification"]["separated_text"]
                         = AlignedText(i)[1]
                  /\ IsRoundedTo2(After(i)["verification"]["similarity"],
                                  Similarity(i))
            /\ Against(Before(i), 10000, 12000, TeVeoElMartes,
                       10100, 11800, TeVeoElJueves) =>
                  /\ LowSimilarity(i)
                  /\ After(i)["verification"]["similarity"] = 75
                  /\ After(i)["needs_review"] = TRUE
                  /\ After(i)["review_note"] = CheckMartesJueves
                  /\ After(i)["verification"]["separated_text"] = TeVeoElJueves

\* The martes/jueves example has been compared and flagged.
C9_Witness ==
    /\ v_pc = "done"
    /\ \E i \in 1..Len(compare_in) :
          /\ Against(Before(i), 10000, 12000, TeVeoElMartes,
                     10100, 11800, TeVeoElJueves)
          /\ After(i)["needs_review"] = TRUE

TextAB == <<"a", " ", "b">>
TextABCap == <<"A", " ", "b", " ">>
TextAC == <<"a", " ", "c">>
TextC == <<"c">>
TextX == <<"x">>

\* (confidence, no_speech_prob) of a segment: a probability, a log
\* probability below the threshold, and a log probability above it with a
\* high no-speech probability.
MarkChoices == {<<9500, 0>>, <<-10000, 0>>, <<-1000, 6000>>}

\* Fields a segment may carry from an earlier annotation.
EarlierFields ==
    {<<>>,
     [needs_review |-> TRUE, review_note |-> TextX,
      verification |-> [separated_text |-> TextX, similarity |-> 50]]}

RECURSIVE PutAll(_, _)
PutAll(d, e) ==
    IF DOMAIN e = {} THEN d
    ELSE LET k == CHOOSE x \in DOMAIN e : TRUE
         IN  PutAll(Put(d, k, e[k]), [x \in DOMAIN e \ {k} |-> e[x]])

CallSegment(start, end, text, marks, earlier) ==
    PutAll([start |-> start, end |-> end, text |-> text,
            confidence |-> marks[1], no_speech_prob |-> marks[2]], earlier)

\* Primary segments at [1.0, 3.0] and at [1.0, 2.0].
CallFirst ==
    {CallSegment(1000, 3000, TextABCap, m, e) :
        m \in MarkChoices, e \in EarlierFields}

CallSecond ==
    {CallSegment(1000, 2000, TextAC, m, e) :
        m \in {<<9500, 0>>, <<-10000, 0>>}, e \in EarlierFields}

CallPrimaryLists ==
    {<<>>} \cup {<<a>> : a \in CallFirst \cup CallSecond}
    \cup {<<a, b>> : a \in CallFirst, b \in CallSecond}

\* Secondary entries: overlapping [1.0, 3.0] only; overlapping neither;
\* touching [1.0, 2.0] at its end, with empty text; overlapping both;
\* overlapping both with a midpoint farther than the tolerance; and one in
\* the same bucket (3.2) as the first.
CallEntries ==
    {SecondarySegment(2500, 4000, TextAB),
     SecondarySegment(5000, 6000, TextAC),
     SecondarySegment(2000, 3000, <<>>),
     SecondarySegment(1100, 1900, TextAC),
     SecondarySegment(0, 9000, TextAB),
     SecondarySegment(2400, 4000, TextC)}

\* Two per-speaker transcriptions: none or one segment (of the entries that
\* start after 2.0 s), then up to two segments.
CallSecondaryLists ==
    {<<[segments |-> l1], [segments |-> l2]>> :
        l1 \in {<<>>} \cup {<<x>> : x \in {y \in CallEntries : y["start"] > 2000}},
        l2 \in {<<>>} \cup {<<x>> : x \in CallEntries}
               \cup {<<x, y>> : x \in CallEntries, y \in CallEntries}}

InitCalls ==
    /\ SmoothIdle
    /\ DiarIdle
    /\ CliIdle
    /\ SimIdle
    /\ UnitIdle
    /\ v_pc = "start"
    /\ \E segs \in CallPrimaryLists : full_transcription = [segments |-> segs]
    /\ separated_transcriptions \in CallSecondaryLists
    /\ proofread_ran = FALSE
    /\ compare_in = <<>>
    /\ compare_locals = <<>>

\* A call of add_confidence_markers(full_transcription).
CallMarkers ==
    /\ v_pc \in {"start", "markers", "compare"}
    /\ full_transcription' = add_confidence_markers(full_transcription)
    /\ proofread_ran' = TRUE
    /\ v_pc' = "markers"
    /\ UNCHANGED <<separated_transcriptions, compare_in, compare_locals>>
    /\ UNCHANGED <<smoothVars, diarVars, cliVars, simVars, unitVars>>

\* A call of compare_transcriptions(full_transcription,
\* separated_transcriptions).
CallCompare ==
    /\ v_pc \in {"start", "markers", "compare"}
    /\ compare_in' = full_transcription["segments"]
    /\ compare_locals' = MatchSegments(full_transcription, separated_transcriptions)
    /\ full_transcription' = DecideSegments(full_transcription, compare_locals')
    /\ v_pc' = "compare"
    /\ UNCHANGED <<separated_transcriptions, proofread_ran>>
    /\ UNCHANGED <<smoothVars, diarVars, cliVars, simVars, unitVars>>

NextCalls == CallMarkers \/ CallCompare

SpecCalls == InitCalls /\ [][NextCalls]_vars

\* The indices of the segments whose needs_review is true.
Flagged(segs) ==
    {i \in 1..Len(segs) : Get(segs[i], "needs_review", FALSE) = TRUE}

\* C11: whenever add_confidence_markers or compare_transcriptions has
\* returned, review_needed is present and equals the number of segments of
\* the transcription whose needs_review is true, for any number of segments.
C11_ReviewNeededIsCount ==
    v_pc \in {"markers", "compare"} =>
        /\ "review_needed" \in DOMAIN full_transcription
        /\ full_transcription["review_needed"]
               = Cardinality(Flagged(full_transcription["segments"]))

\* compare_transcriptions has returned, after add_confidence_markers had
\* flagged nothing, on two segments of which it flagged one.
C11_Witness ==
    /\ v_pc = "compare"
    /\ proofread_ran
    /\ Len(full_transcription["segments"]) = 2
    /\ Cardinality(Flagged(full_transcription["segments"])) = 1
    /\ Cardinality(Flagged(compare_in)) = 0

\* The secondary entries in index encounter order: buckets in the order in
\* which their key first occurs among the secondary segments, and within a
\* bucket the entries in the order of the segments.
EncounterOrder(es) ==
    LET key(i) == TimeKey(es[i]["start"], es[i]["end"])
        first(i) == CHOOSE j \in 1..i :
                        /\ key(j) = key(i)
                        /\ \A h \in 1..(j - 1) : key(h) # key(i)
        precedes(i, j) == first(i) < first(j) \/ (first(i) = first(j) /\ i < j)
        rank(i) == 1 + Cardinality({j \in 1..Len(es) : precedes(j, i)})
    IN  [r \in 1..Len(es) |-> es[CHOOSE i \in 1..Len(es) : rank(i) = r]]

\* Entry x has its bucket key within the tolerance of the midpoint of [s, e]
\* and overlaps [s, e] in more than a point.
Matches(x, s, e) ==
    /\ Abs(2 * TimeKey(x["start"], x["end"]) - (s + e)) <= 2 * 2000
    /\ s < x["end"]
    /\ x["start"] < e

\* The texts of the matching entries, in index encounter order.
ExpectedTexts(s, e) ==
    LET es == EncounterOrder(AllSecondary(separated_transcriptions))
        hit(x) == Matches(x, s, e)
        hits == SelectSeq(es, hit)
    IN  [i \in 1..Len(hits) |-> hits[i]["text"]]

\* The secondary transcriptions hold exactly one segment, [start, end].
OnlySecondary(start, end) ==
    /\ Len(AllSecondary(separated_transcriptions)) = 1
    /\ AllSecondary(separated_transcriptions)[1]["start"] = start
    /\ AllSecondary(separated_transcriptions)[1]["end"] = end

\* C16: for every primary segment [s, e], _find_matching_text returns the
\* single-space join, in index encounter order, of the texts of exactly the
\* secondary entries whose bucket key is within 2.0 s of the midpoint and
\* that satisfy s < entry.end and entry.start < e (None when there is no such
\* entry); [1.0, 3.0] and [2.5, 4.0] are matched, [1.0, 2.0] and [5.0, 6.0]
\* are not, and neither are [1.0, 2.0] and [2.0, 3.0], which only touch.
C16_AlignerLookup ==
    v_pc = "compare" =>
        \A i \in 1..Len(compare_in) :
            LET s == Before(i)["start"]
                e == Before(i)["end"]
                texts == ExpectedTexts(s, e)
                found == compare_locals[i]["separated_text"]
            IN  /\ texts = <<>> => found = NoText
                /\ texts # <<>> => found = SomeText(JoinSpace(texts))
                /\ (s = 1000 /\ e = 3000 /\ OnlySecondary(2500, 4000)) =>
                      found = SomeText(TextAB)
                /\ (s = 1000 /\ e = 2000 /\ OnlySecondary(5000, 6000)) =>
                      found = NoText
                /\ (s = 1000 /\ e = 2000 /\ OnlySecondary(2000, 3000)) =>
                      found = NoText

\* C16 witness: a lookup joined the texts of three entries taken from the
\* index bucket by bucket, in another order than the secondary segments came.
C16_Witness ==
    /\ v_pc = "compare"
    /\ \E i \in 1..Len(compare_in) :
          LET es == AllSecondary(separated_transcriptions)
          IN  /\ compare_locals[i]["separated_text"]
                     = SomeText(TextAB \o <<" ">> \o TextC \o <<" ">> \o TextAC)
              /\ Len(es) = 3
              /\ es[1]["text"] = TextAB
              /\ es[2]["text"] = TextAC
              /\ es[3]["text"] = TextC

\* A comparison was produced for segment i and its record attached.
Annotated(i) ==
    /\ "similarity" \in DOMAIN compare_locals[i]
    /\ "verification" \in DOMAIN After(i)
    /\ Get(After(i)["verification"], "similarity", -1)
           = RoundHundredths(compare_locals[i]["similarity"])

\* C17: compare_transcriptions annotates a primary segment exactly when the
\* lookup finds at least one matching secondary entry: with zero matches the
\* segment (its needs_review, review_note and verification included) is left
\* exactly as it was, and with one or more matching entries, whatever their
\* texts, a comparison is produced and a verification record attached.
C17_AnnotatedIffMatched ==
    v_pc = "compare" =>
        \A i \in 1..Len(compare_in) :
            LET texts == ExpectedTexts(Before(i)["start"], Before(i)["end"])
            IN  /\ texts = <<>> => After(i) = Before(i)
                /\ texts # <<>> => Annotated(i)

(***************************************************************************)
(* Specification SpecSimilarity: _calculate_similarity applied to two      *)
(* arbitrary texts                                                         *)
(***************************************************************************)

\* Words the texts are made of, and the padding put around them.
SimWords == {<<>>, <<"a">>, <<"A">>, <<"a", "b">>, <<"A", "b">>, <<"b", "a">>,
             <<"a", " ", "b">>, <<"a", " ", "B">>}

SimPaddings == {<<>>, <<" ">>, <<"\t", " ">>}

SimTexts == {l \o w \o r : l \in SimPaddings, w \in SimWords, r \in SimPaddings}

InitSimilarity ==
    /\ SmoothIdle
    /\ DiarIdle
    /\ CliIdle
    /\ VerifyIdle
    /\ UnitIdle
    /\ sim_pc = "call"
    /\ sim_text1 \in SimTexts
    /\ sim_text2 \in SimTexts
    /\ sim_value = [num |-> 0, den |-> 1]

\* One call of _calculate_similarity(text1, text2).
SimCall ==
    /\ sim_pc = "call"
    /\ sim_value' = calculate_similarity(sim_text1, sim_text2)
    /\ sim_pc' = "done"
    /\ UNCHANGED <<sim_text1, sim_text2>>
    /\ UNCHANGED <<smoothVars, diarVars, cliVars, verifyVars, unitVars>>

NextSimilarity == SimCall

SpecSimilarity == InitSimilarity /\ [][NextSimilarity]_vars

\* Texts a and b differ at most in the case of their letters and in leading
\* and trailing whitespace.
SameUpToCaseAndPadding(a, b) == Strip(Lower(a)) = Strip(Lower(b))

SameFraction(x, y) == x["num"] * y["den"] = y["num"] * x["den"]

\* C18: _calculate_similarity(t, t) = 1.0 for every non-empty t;
\* _calculate_similarity("", x) = _calculate_similarity(x, "") = 0.0 for every
\* x; and the score of two non-empty texts does not change when either of them
\* is replaced by a non-empty text that differs from it only in case and in
\* leading/trailing whitespace (one argument at a time, which gives every pair
\* of replacements by chaining).
C18_SimilarityIdentities ==
    sim_pc = "done" =>
        /\ (sim_text1 = sim_text2 /\ sim_text1 # <<>>) =>
              sim_value["num"] = sim_value["den"]
        /\ (sim_text1 = <<>> \/ sim_text2 = <<>>) => sim_value["num"] = 0
        /\ (sim_text1 # <<>> /\ sim_text2 # <<>>) =>
              \A u \in SimTexts \ {<<>>} :
                  /\ SameUpToCaseAndPadding(sim_text1, u) =>
                        SameFraction(calculate_similarity(u, sim_text2), sim_value)
                  /\ SameUpToCaseAndPadding(sim_text2, u) =>
                        SameFraction(calculate_similarity(sim_text1, u), sim_value)

\* C18 witness: the function has returned a score strictly between 0 and 1
\* for two texts that differ in case and padding from another pair.
C18_Witness ==
    /\ sim_pc = "done"
    /\ sim_text1 = <<" ", "A", "b">>
    /\ sim_text2 = <<"b", "a", " ">>
    /\ sim_value["num"] > 0
    /\ sim_value["num"] < sim_value["den"]

(***************************************************************************)
(* Specification SpecSmooth: the smoother applied to arbitrary lists       *)
(***************************************************************************)

\* Longest segment list given to the smoother.
MaxSegs == 5

\* Number of consecutive calls made on one list.
MaxSmoothCalls == 3

\* Speaker values of the input: two known speakers, "Unknown", and None
\* standing for a segment without the key.
SpeakerChoices == {"Speaker 1", "Speaker 2", "Unknown", None}

\* Segment durations in ms: below 3.0 s and exactly 3.0 s.
DurChoices == {1000, 3000}

\* Start of segment i when segments follow one another without gaps.
RECURSIVE StartOf(_, _)
StartOf(durs, i) == IF i <= 1 THEN 0 ELSE StartOf(durs, i - 1) + durs[i - 1]

\* The text of the i-th segment: i letters, so that no two segments of a
\* list have the same text.
TextOf(i) == [j \in 1..i |-> "a"]

MkSegment(start, end, speaker, text) ==
    IF speaker = None
    THEN [start |-> start, end |-> end, text |-> text]
    ELSE [start |-> start, end |-> end, text |-> text, speaker |-> speaker]

MkSegments(durs, spks) ==
    [i \in 1..Len(durs) |->
        MkSegment(StartOf(durs, i), StartOf(durs, i) + durs[i], spks[i], TextOf(i))]

InitSmooth ==
    /\ \E n \in 0..MaxSegs :
         \E durs \in [1..n -> DurChoices], spks \in [1..n -> SpeakerChoices] :
            segments = MkSegments(durs, spks)
    /\ smooth_in = segments
    /\ smooth_prev = segments
    /\ smooth_calls = 0
    /\ smooth_flipped = segments
    /\ DiarIdle
    /\ CliIdle
    /\ VerifyIdle
    /\ SimIdle
    /\ UnitIdle

\* A call of _smooth_speaker_changes(segments).
SmoothCall ==
    /\ smooth_calls < MaxSmoothCalls
    /\ smooth_prev' = segments
    /\ segments' = smooth_speaker_changes(segments)
    /\ smooth_flipped' = first_loop(segments)
    /\ smooth_calls' = smooth_calls + 1
    /\ UNCHANGED smooth_in
    /\ UNCHANGED diarVars
    /\ UNCHANGED cliVars
    /\ UNCHANGED verifyVars
    /\ UNCHANGED simVars
    /\ UNCHANGED unitVars

NextSmooth == SmoothCall

SpecSmooth == InitSmooth /\ [][NextSmooth]_vars

Speakers(segs) == [i \in 1..Len(segs) |-> GetSpeaker(segs[i])]

IsGap(s) == s = "Unknown" \/ s = None

AllKnown(segs) == \A i \in 1..Len(segs) : KnownSpeaker(GetSpeaker(segs[i]))

\* C1 (as stated): a second application of _smooth_speaker_changes to the
\* result of a first one leaves every segment's speaker unchanged, for every
\* input list.
C1_IdempotentAnyList ==
    smooth_calls = 2 => Speakers(segments) = Speakers(smooth_prev)

\* C1 (amended): when every segment of the input has a known speaker, the
\* second application changes no speaker; and for any input whatever, a
\* third application changes no speaker.
C1_IdempotentKnownLists ==
    /\ (smooth_calls = 2 /\ AllKnown(smooth_in))
          => Speakers(segments) = Speakers(smooth_prev)
    /\ smooth_calls = 3 => Speakers(segments) = Speakers(smooth_prev)

\* C1 witness: a list of known speakers whose first application absorbed an
\* isolated flip, and which has been smoothed a second time.
C1_Witness ==
    /\ smooth_calls = 2
    /\ AllKnown(smooth_in)
    /\ Len(smooth_in) >= 3
    /\ Speakers(smooth_prev) # Speakers(smooth_in)

\* C7: speakers [A, Unknown, B, Unknown, Unknown], A and B distinct known
\* speakers, whatever the intervals, are smoothed to [A, A, B, B, B].
C7_GapFillExample ==
    \A a, b \in {"Speaker 1", "Speaker 2"} :
        (/\ smooth_calls = 1
         /\ a # b
         /\ Speakers(smooth_in) = <<a, "Unknown", b, "Unknown", "Unknown">>)
            => Speakers(segments) = <<a, a, b, b, b>>

\* Nearest known speaker of the list before index i, else after it, else None.
NearestKnown(segs, i) ==
    IF PrevKnown(segs, i - 1) # None THEN PrevKnown(segs, i - 1)
    ELSE NextKnown(segs, i + 1)

\* C8: after one call on a list of any length >= 1, a segment is "Unknown"
\* or without speaker only if no input segment had a known speaker; otherwise
\* every gap of the input holds the nearest known speaker before it, or the
\* nearest after it when none precedes it.
C8_GapFillGeneral ==
    (smooth_calls = 1 /\ Len(smooth_in) >= 1) =>
        \A i \in 1..Len(segments) :
            /\ IsGap(GetSpeaker(segments[i]))
                  => \A j \in 1..Len(smooth_in) :
                        ~KnownSpeaker(GetSpeaker(smooth_in[j]))
            /\ (/\ IsGap(GetSpeaker(smooth_in[i]))
                /\ \E j \in 1..Len(smooth_in) :
                        KnownSpeaker(GetSpeaker(smooth_in[j])))
                  => GetSpeaker(segments[i]) = NearestKnown(smooth_in, i)

Duration(seg) == seg["end"] - seg["start"]

\* The test Rule 1 makes at index i of the list the call was given, with the
\* previous segment read as the sweep left it and the next one as given.
FlipCondition(i) ==
    /\ GetSpeaker(smooth_flipped[i - 1]) = GetSpeaker(smooth_prev[i + 1])
    /\ GetSpeaker(smooth_prev[i]) # GetSpeaker(smooth_flipped[i - 1])
    /\ Duration(smooth_prev[i]) < FlipMaxDuration

\* C25: when the first loop of a call has ended, the first and last segments
\* are as given; every index i in between holds the speaker of segment i - 1
\* (as updated by the sweep) if speaker[i-1] = speaker[i+1], speaker[i]
\* differs from them and the segment lasts strictly less than 3.0 s, and is
\* as given otherwise.
C25_RuleOneForwardSweep ==
    smooth_calls >= 1 =>
        LET n == Len(smooth_prev)
        IN  /\ Len(smooth_flipped) = n
            /\ n >= 1 => /\ smooth_flipped[1] = smooth_prev[1]
                         /\ smooth_flipped[n] = smooth_prev[n]
            /\ \A i \in 2..(n - 1) :
                  IF FlipCondition(i)
                  THEN /\ GetSpeaker(smooth_flipped[i])
                              = GetSpeaker(smooth_flipped[i - 1])
                       /\ GetSpeaker(smooth_flipped[i]) # GetSpeaker(smooth_prev[i])
                  ELSE smooth_flipped[i] = smooth_prev[i]

\* C25 witness: on speakers 1, 2, 1, 2, 1 of 1.0 s each, the sweep absorbed
\* index 2, then left index 3 alone because its previous neighbour had just
\* changed, then absorbed index 4.
C25_Witness ==
    /\ smooth_calls = 1
    /\ Speakers(smooth_prev)
          = <<"Speaker 1", "Speaker 2", "Speaker 1", "Speaker 2", "Speaker 1">>
    /\ \A i \in 1..5 : Duration(smooth_prev[i]) = 1000
    /\ Speakers(smooth_flipped)
          = <<"Speaker 1", "Speaker 1", "Speaker 1", "Speaker 1", "Speaker 1">>

\* The fields of a segment other than its speaker.
OtherFields(seg) == [k \in DOMAIN seg \ {"speaker"} |-> seg[k]]

\* C29: a call of _smooth_speaker_changes leaves the number of segments,
\* their order, and every segment's start, end, text and other fields as
\* they were; only speaker fields differ.
C29_SmootherFrame ==
    smooth_calls >= 1 =>
        /\ Len(segments) = Len(smooth_prev)
        /\ \A i \in 1..Len(segments) :
              OtherFields(segments[i]) = OtherFields(smooth_prev[i])

\* C29 witness: a call on five segments changed the speaker of one of them
\* and gave a speaker to one that had none.
C29_Witness ==
    /\ smooth_calls = 1
    /\ Len(segments) = 5
    /\ \E i \in 1..5 : /\ "speaker" \in DOMAIN smooth_prev[i]
                       /\ KnownSpeaker(smooth_prev[i]["speaker"])
                       /\ segments[i]["speaker"] # smooth_prev[i]["speaker"]
    /\ \E i \in 1..5 : /\ "speaker" \notin DOMAIN smooth_prev[i]
                       /\ KnownSpeaker(GetSpeaker(segments[i]))

(***************************************************************************)
(* Specification SpecCluster: _cluster_embeddings applied to a list of     *)
(* embeddings that may contain zero vectors                                *)
(***************************************************************************)

\* Most embeddings in a list.
MaxEmbeddings == 3

\* Embeddings are vectors of two integer coordinates; <<0, 0>> has norm zero.
ClusterVectors == {<<0, 0>>, <<1, 0>>, <<0, 1>>, <<1, 1>>}

EmbeddingLists == UNION {[1..n -> ClusterVectors] : n \in 0..MaxEmbeddings}

Dot(u, v) == u[1] * v[1] + u[2] * v[2]

ZeroNorm(v) == Dot(v, v) = 0

\* pdist(embeddings, metric="cosine"): one entry per pair i < j. The entry is
\* 1 - u.v / (|u| |v|), which is 0/0 = NaN when either vector has norm zero;
\* no other value of the entry matters here.
pdist(embeddings) ==
    [p \in {q \in (1..Len(embeddings)) \X (1..Len(embeddings)) : q[1] < q[2]} |->
        IF ZeroNorm(embeddings[p[1]]) \/ ZeroNorm(embeddings[p[2]])
        THEN "nan" ELSE "finite"]

\* linkage(distances, method="average") raises ValueError when the condensed
\* distance matrix holds a value that is not finite.
LinkageRaises(distances) == \E p \in DOMAIN distances : distances[p] = "nan"

\* The outcomes of _cluster_embeddings(embeddings, num_speakers).
cluster_embeddings(embeddings, k) ==
    IF Len(embeddings) < 2
    THEN {[raised |-> FALSE, labels |-> l] : l \in ClusterLabels(Len(embeddings), k)}
    ELSE IF LinkageRaises(pdist(embeddings))
    THEN {[raised |-> TRUE, labels |-> <<>>]}
    ELSE {[raised |-> FALSE, labels |-> l] : l \in ClusterLabels(Len(embeddings), k)}

InitCluster ==
    /\ SmoothIdle
    /\ DiarIdle
    /\ CliIdle
    /\ VerifyIdle
    /\ SimIdle
    /\ LoadIdle
    /\ ExtractIdle
    /\ NoteIdle
    /\ c_pc = "call"
    /\ c_embeddings \in EmbeddingLists
    /\ c_num_speakers \in {Auto} \cup {Count(k) : k \in 1..(MaxLabel + 1)}
    /\ c_raised = FALSE
    /\ c_labels = <<>>

\* One call of _cluster_embeddings(c_embeddings, c_num_speakers).
ClusterCall ==
    /\ c_pc = "call"
    /\ \E out \in cluster_embeddings(c_embeddings, c_num_speakers) :
          /\ c_raised' = out["raised"]
          /\ c_labels' = out["labels"]
    /\ c_pc' = "done"
    /\ UNCHANGED <<c_embeddings, c_num_speakers>>
    /\ UNCHANGED <<smoothVars, diarVars, cliVars, verifyVars, simVars>>
    /\ UNCHANGED <<loadVars, extractVars, noteVars>>

NextCluster == ClusterCall

SpecCluster == InitCluster /\ [][NextCluster]_vars

\* C21: for any input of 2 or more embeddings that contains a zero-norm
\* vector, _cluster_embeddings returns without raising and gives one label per
\* embedding.
C21_DegenerateEmbeddingsNeverFail ==
    (/\ c_pc = "done"
     /\ Len(c_embeddings) >= 2
     /\ \E i \in 1..Len(c_embeddings) : ZeroNorm(c_embeddings[i])) =>
        /\ ~c_raised
        /\ DOMAIN c_labels = 1..Len(c_embeddings)

(***************************************************************************)
(* Specification SpecMap: the mapping loop of diarize_audio (and the       *)
(* smoothing and counting after it) on any diarization segment list and    *)
(* any transcript segments, well-formed or not                             *)
(***************************************************************************)

\* Most diarization segments in the list.
MaxMapDiar == 2

\* Most transcript segments in the transcription.
MaxMapTrans == 1

\* Diarization intervals, in samples (0, 1 and 2 s), with start < end.
MapDiarIntervals ==
    {iv \in [start : {0, 16000, 32000}, end : {0, 16000, 32000}] :
        iv["start"] < iv["end"]}

\* Transcript intervals, in ms, in any relation of start to end.
MapTransIntervals == [start : {0, 1000, 2000, 4000}, end : {0, 1000, 2000, 4000}]

InitMap ==
    /\ SmoothIdle
    /\ CliIdle
    /\ VerifyIdle
    /\ SimIdle
    /\ UnitIdle
    /\ d_pc = "map"
    /\ len_signal = 0
    /\ num_speakers = Auto
    /\ \E n \in 1..MaxMapDiar :
          /\ n_embeddings = n
          /\ segment_times \in [1..n -> MapDiarIntervals]
          /\ labels \in [1..n -> 0..MaxLabel]
    /\ diar_segments = <<>>
    /\ \E n \in 0..MaxMapTrans : \E segs \in [1..n -> MapTransIntervals] :
          transcription = [segments |-> segs]
    /\ d_calls = <<"_extract_embeddings", "_cluster_embeddings">>

NextMap == DiarMap \/ DiarSmooth

SpecMap == InitMap /\ [][NextMap]_vars

\* A transcript interval that violates start < end.
Malformed(seg) == ~(seg["start"] < seg["end"])

\* C22: when the mapping loop is given a transcript segment whose interval
\* violates start < end, the call does not go on: no segment of the
\* transcription gets a speaker.
C22_MalformedIntervalRejected ==
    (/\ d_pc \in {"smooth", "done"}
     /\ \E i \in 1..Len(transcription["segments"]) :
           Malformed(transcription["segments"][i])) =>
        \A i \in 1..Len(transcription["segments"]) :
            "speaker" \notin DOMAIN transcription["segments"][i]

\* The diarization segments that contain mid, ends included.
Containing(mid) ==
    {k \in 1..Len(diar_segments) :
        diar_segments[k]["start"] <= mid /\ mid <= diar_segments[k]["end"]}

\* The diarization segments at the least boundary distance from mid.
Nearest(mid) ==
    {k \in 1..Len(diar_segments) :
        \A j \in 1..Len(diar_segments) :
            BoundaryDistance(diar_segments[k], mid)
                <= BoundaryDistance(diar_segments[j], mid)}

Earliest(S) == CHOOSE k \in S : \A j \in S : k <= j

\* C26: right after the mapping loop, every transcript segment with midpoint
\* mid has the speaker of the earliest diarization segment in list order with
\* start <= mid <= end, and when none contains mid, of the earliest of those
\* minimising min(|start - mid|, |end - mid|).
C26_MapperChoice ==
    d_pc = "smooth" =>
        \A i \in 1..Len(transcription["segments"]) :
            LET seg == transcription["segments"][i]
                mid == SegMid(seg)
                chosen == IF Containing(mid) # {} THEN Earliest(Containing(mid))
                          ELSE Earliest(Nearest(mid))
            IN  GetSpeaker(seg) = SpeakerName(diar_segments[chosen]["label"])

\* C26 witness: a midpoint outside both diarization segments and equally far
\* from them took the speaker of the first, which differs from the second's.
C26_Witness ==
    /\ d_pc = "smooth"
    /\ Len(diar_segments) = 2
    /\ Len(transcription["segments"]) = 1
    /\ LET mid == SegMid(transcription["segments"][1])
       IN  /\ Containing(mid) = {}
           /\ Nearest(mid) = {1, 2}
           /\ diar_segments[1]["label"] # diar_segments[2]["label"]
           /\ GetSpeaker(transcription["segments"][1])
                  = SpeakerName(diar_segments[1]["label"])

(***************************************************************************)
(* diarizer.py: _load_embedding_model_local and _load_vad_model, called    *)
(* at the start of diarize_audio.  A handle is the serial number of its    *)
(* construction; 0 stands for None.                                        *)
(***************************************************************************)

\* Threads that call diarize_audio.
NumThreads == 2

\* Calls of diarize_audio each thread may start.
MaxLoadCalls == 2

Threads == 1..NumThreads

\* The two cached models, in the order diarize_audio loads them.
Models == {"embed", "vad"}

IdlePc == <<"idle", "none">>

\* The test that never finds the cache filled.
CacheHitNever(m) == FALSE

\* if _cached_embed_model is not None / if _cached_vad_model is not None
CacheHit(m) == cache[m] # 0

\* Where a thread goes when the loader of model m has returned: on to
\* _load_vad_model, or on with the rest of diarize_audio.
AfterLoad(m) == IF m = "embed" THEN <<"check", "vad">> ELSE IdlePc

InitLoad ==
    /\ SmoothIdle
    /\ DiarIdle
    /\ CliIdle
    /\ VerifyIdle
    /\ SimIdle
    /\ ClusterIdle
    /\ ExtractIdle
    /\ NoteIdle
    /\ cache = [m \in Models |-> 0]
    /\ built = [m \in Models |-> 0]
    /\ t_pc = [t \in Threads |-> IdlePc]
    /\ t_handle = [t \in Threads |-> 0]
    /\ t_calls = [t \in Threads |-> 0]
    /\ returned = [m \in Models |-> {}]

LoadFrame ==
    /\ UNCHANGED <<smoothVars, diarVars, cliVars, verifyVars, simVars>>
    /\ UNCHANGED <<clusterVars, extractVars, noteVars>>

\* Thread t calls diarize_audio, which begins with
\* _load_embedding_model_local().
LoadBegin(t) ==
    /\ t_pc[t] = IdlePc
    /\ t_calls[t] < MaxLoadCalls
    /\ t_calls' = [t_calls EXCEPT ![t] = @ + 1]
    /\ t_pc' = [t_pc EXCEPT ![t] = <<"check", "embed">>]
    /\ UNCHANGED <<cache, built, t_handle, returned>>
    /\ LoadFrame

\* The same call made while no other call of diarize_audio is in progress.
LoadBeginAlone(t) ==
    /\ \A u \in Threads : t_pc[u] = IdlePc
    /\ LoadBegin(t)

\* The test of the cache at the top of a loader.
LoadCheck(t) ==
    /\ t_pc[t][1] = "check"
    /\ t_pc' = [t_pc EXCEPT ![t] =
                  <<IF CacheHit(t_pc[t][2]) THEN "return" ELSE "build", t_pc[t][2]>>]
    /\ UNCHANGED <<cache, built, t_handle, t_calls, returned>>
    /\ LoadFrame

\* The construction of the model into locals: a new handle, or an exception
\* (missing files, failed download) that ends the call of diarize_audio.
LoadBuild(t) ==
    /\ t_pc[t][1] = "build"
    /\ \/ /\ built' = [built EXCEPT ![t_pc[t][2]] = @ + 1]
          /\ t_handle' = [t_handle EXCEPT ![t] = built[t_pc[t][2]] + 1]
          /\ t_pc' = [t_pc EXCEPT ![t] = <<"store", t_pc[t][2]>>]
       \/ /\ t_pc' = [t_pc EXCEPT ![t] = IdlePc]
          /\ UNCHANGED <<built, t_handle>>
    /\ UNCHANGED <<cache, t_calls, returned>>
    /\ LoadFrame

\* _cached_embed_model = {...} / _cached_vad_model = (model, get_speech_ts)
LoadStore(t) ==
    /\ t_pc[t][1] = "store"
    /\ cache' = [cache EXCEPT ![t_pc[t][2]] = t_handle[t]]
    /\ t_pc' = [t_pc EXCEPT ![t] = <<"return", t_pc[t][2]>>]
    /\ UNCHANGED <<built, t_handle, t_calls, returned>>
    /\ LoadFrame

\* return _cached_embed_model / return _cached_vad_model: the global is read
\* again at the return.
LoadReturn(t) ==
    /\ t_pc[t][1] = "return"
    /\ returned' = [returned EXCEPT ![t_pc[t][2]] = @ \cup {cache[t_pc[t][2]]}]
    /\ t_pc' = [t_pc EXCEPT ![t] = AfterLoad(t_pc[t][2])]
    /\ UNCHANGED <<cache, built, t_handle, t_calls>>
    /\ LoadFrame

\* Sequential jobs: a call of diarize_audio starts only when none is running.
NextLoadSeq ==
    \E t \in Threads :
        \/ LoadBeginAlone(t)
        \/ LoadCheck(t)
        \/ LoadBuild(t)
        \/ LoadStore(t)
        \/ LoadReturn(t)

SpecLoadSeq == InitLoad /\ [][NextLoadSeq]_vars

\* Concurrent jobs: the threads' steps interleave freely.
NextLoadThreads ==
    \E t \in Threads :
        \/ LoadBegin(t)
        \/ LoadCheck(t)
        \/ LoadBuild(t)
        \/ LoadStore(t)
        \/ LoadReturn(t)

SpecLoadThreads == InitLoad /\ [][NextLoadThreads]_vars

CallsStarted == {t \in Threads : t_calls[t] > 0}

\* C23: over any sequence of sequential diarize_audio calls, each model is
\* constructed at most once and not before the first call; once a handle has
\* been returned, every call gets that same handle, which is the cached one.
C23_LazySingleInitialisation ==
    \A m \in Models :
        /\ built[m] <= 1
        /\ CallsStarted = {} => built[m] = 0
        /\ Cardinality(returned[m]) <= 1
        /\ returned[m] # {} => returned[m] = {cache[m]} /\ cache[m] # 0

\* C23 witness: both threads have made all their calls one after the other,
\* each model was built once and every call got handle 1.
C23_Witness ==
    /\ \A t \in Threads : t_calls[t] = MaxLoadCalls /\ t_pc[t] = IdlePc
    /\ \A m \in Models : built[m] = 1 /\ returned[m] = {1} /\ cache[m] = 1

\* C30: when threads call the loaders concurrently while the cache is empty,
\* under every interleaving each model is constructed at most once and all
\* callers receive the same handle.
C30_ThreadSafeInitialiseOnce ==
    \A m \in Models :
        /\ built[m] <= 1
        /\ Cardinality(returned[m]) <= 1

(***************************************************************************)
(* Specification SpecJob: a job of cli.main, or a call of diarize_audio    *)
(* seen from inside, each with its failures                                *)
(***************************************************************************)

InitJob == Init \/ InitDiarize

NextJob == Next \/ NextDiarize

SpecJob == InitJob /\ [][NextJob]_vars

\* An exception is on its way to, or has reached, main's handler.
JobFailed == cli_pc = "except" \/ error_reported

\* C24: if a stage before export raises during a CLI job (transcription,
\* diarization, proofreading or verification), the handler ends the job: the
\* export stage is never run and no output file is written; and if a
\* collaborator raises inside diarize_audio, no transcript segment has a
\* speaker and the transcription has no speakers value from that call.
C24_FailedStageDiscarded ==
    /\ (cli_pc = "except" /\ stage_log[Len(stage_log)] # "export") =>
          /\ Occurrences("export") = 0
          /\ exported_files = <<>>
    /\ error_reported => cli_pc = "end"
    /\ (JobFailed /\ Occurrences("export") = 0) => exported_files = <<>>
    /\ d_pc = "raised" =>
          /\ "speakers" \notin DOMAIN transcription
          /\ \A i \in 1..Len(transcription["segments"]) :
                "speaker" \notin DOMAIN transcription["segments"][i]

\* C24 witness: the comparison of the verification stage raised, the error
\* was reported and the job ended without export.
C24_Witness ==
    /\ cli_pc = "end"
    /\ error_reported
    /\ stage_log = <<"transcribe", "diarize", "proofread", "verify", "compare">>
    /\ exported_files = <<>>

(***************************************************************************)
(* Specification SpecExtract: _extract_embeddings with any window and      *)
(* period (in samples: len_window and len_period)                          *)
(***************************************************************************)

\* The while loop and the trailing window for given len_window, len_period.
RECURSIVE window_segments(_, _, _, _, _)
window_segments(start, len, w, p, acc) ==
    IF start + w < len
    THEN window_segments(start + p, len, w, p, Append(acc, <<start, start + w>>))
    ELSE IF start < len THEN Append(acc, <<start, len>>)
    ELSE acc

\* Signal lengths, windows and periods tried, in samples.
ExtractLens == {0, 800, 1600, 2000, 4000, 4800, 8800, 24000, 26000, 40000}

ExtractWindowLens == {800, 1600, 4000, 24000}

ExtractPeriods == {800, 4000, 12000}

InitExtract ==
    /\ SmoothIdle
    /\ DiarIdle
    /\ CliIdle
    /\ VerifyIdle
    /\ SimIdle
    /\ ClusterIdle
    /\ LoadIdle
    /\ NoteIdle
    /\ x_pc = "call"
    /\ x_len \in ExtractLens
    /\ x_window \in ExtractWindowLens
    /\ x_period \in ExtractPeriods
    /\ x_embedded = <<>>
    /\ x_times = <<>>

\* One call of _extract_embeddings: the windows, one embedding for each
\* window that is not skipped (recorded as the window it was computed from),
\* and the interval list cut to the number of embeddings.
ExtractCall ==
    /\ x_pc = "call"
    /\ LET ws == window_segments(0, x_len, x_window, x_period, <<>>)
           embedded == SelectSeq(ws, LongEnough)
       IN  /\ x_embedded' = embedded
           /\ x_times' = SegmentTimes(ws, Len(embedded))
    /\ x_pc' = "done"
    /\ UNCHANGED <<x_len, x_window, x_period>>
    /\ UNCHANGED <<smoothVars, diarVars, cliVars, verifyVars, simVars>>
    /\ UNCHANGED <<clusterVars, loadVars, noteVars>>

NextExtract == ExtractCall

SpecExtract == InitExtract /\ [][NextExtract]_vars

\* C27: for every signal length, window and period, _extract_embeddings
\* returns as many intervals as embeddings, and the i-th interval is the
\* interval of the window the i-th embedding was computed from.
C27_IndexAlignment ==
    x_pc = "done" =>
        /\ Len(x_times) = Len(x_embedded)
        /\ \A i \in 1..Len(x_embedded) :
              x_times[i] = [start |-> x_embedded[i][1], end |-> x_embedded[i][2]]

\* C27 witness: a call whose last window was too short for an embedding
\* returned the two full windows before it, each with its own interval.
C27_Witness ==
    /\ x_pc = "done"
    /\ x_len = 8800
    /\ x_window = 4000
    /\ x_period = 4000
    /\ x_embedded = <<<<0, 4000>>, <<4000, 8000>>>>
    /\ Len(x_times) = 2

(***************************************************************************)
(* Specification SpecNote: _find_different_words followed by               *)
(* _create_short_note, as compare_transcriptions calls them, on any two    *)
(* texts                                                                   *)
(***************************************************************************)

\* A word of 25 letters and one of 14: longer than what the cuts leave room
\* for after "Check: " and "Missing: ".
LongWord == [i \in 1..25 |-> "x"]

MidWord == [i \in 1..14 |-> "y"]

NoteWords == {<<"a">>, <<"A">>, <<"b">>, LongWord, MidWord}

\* Texts of zero, one or two words.
NoteTexts ==
    {<<>>} \cup NoteWords \cup {u \o <<" ">> \o v : u \in NoteWords, v \in NoteWords}

InitNote ==
    /\ SmoothIdle
    /\ DiarIdle
    /\ CliIdle
    /\ VerifyIdle
    /\ SimIdle
    /\ ClusterIdle
    /\ LoadIdle
    /\ ExtractIdle
    /\ n_pc = "call"
    /\ n_original \in NoteTexts
    /\ n_separated \in NoteTexts
    /\ n_diff = <<>>
    /\ n_note = <<>>

\* diff_words = _find_different_words(full_text, separated_text) and
\* _create_short_note(diff_words).
NoteCall ==
    /\ n_pc = "call"
    /\ n_diff' = FirstDifference(n_original, n_separated)
    /\ n_note' = create_short_note(FirstDifference(n_original, n_separated))
    /\ n_pc' = "done"
    /\ UNCHANGED <<n_original, n_separated>>
    /\ UNCHANGED <<smoothVars, diarVars, cliVars, verifyVars, simVars>>
    /\ UNCHANGED <<clusterVars, loadVars, extractVars>>

NextNote == NoteCall

SpecNote == InitNote /\ [][NextNote]_vars

\* C28: the note is built from the first edit operation of the word-level
\* alignment only: a replacement gives "Check: {first original word}/{first
\* new word}" cut to 30 characters, a pure deletion "Missing: {word}" cut to
\* 20, a pure insertion "Extra: {word}" cut to 20, no edit at all "Check
\* audio"; the note is never empty and never longer than 30 characters.
C28_ReviewNote ==
    n_pc = "done" =>
        /\ Len(n_note) >= 1
        /\ Len(n_note) <= 30
        /\ (n_diff = <<>>) = (Split(Lower(n_original)) = Split(Lower(n_separated)))
        /\ n_diff = <<>> => n_note = CheckAudio
        /\ n_diff # <<>> =>
              LET orig == n_diff[1]
                  new == n_diff[2]
              IN  /\ orig # <<>> \/ new # <<>>
                  /\ (orig # <<>> /\ new # <<>>) =>
                        n_note = Prefix(CheckColon \o orig[1] \o <<"/">> \o new[1], 30)
                  /\ (orig # <<>> /\ new = <<>>) =>
                        /\ n_note = Prefix(MissingColon \o orig[1], 20)
                        /\ Len(n_note) <= 20
                  /\ (orig = <<>> /\ new # <<>>) =>
                        /\ n_note = Prefix(ExtraColon \o new[1], 20)
                        /\ Len(n_note) <= 20

\* C28 witness: the second word was replaced by a long one, after an equal
\* first word, and the note was cut to 30 characters.
C28_Witness ==
    /\ n_pc = "done"
    /\ n_original = <<"a">> \o <<" ">> \o MidWord
    /\ n_separated = <<"A">> \o <<" ">> \o LongWord
    /\ n_diff = <<<<MidWord>>, <<LongWord>>>>
    /\ Len(n_note) = 30

====
